---- MODULE Spec2Model ----
(***************************************************************************)
(* A model of the Qor kernel's filesystem core: the Path value             *)
(* (libutils/src/paths/path.rs), the backend-independent algorithms of the *)
(* Filesystem trait (qor-os/src/fs/fstrait.rs) and the virtual filesystem  *)
(* interface with its mount table and path cache (qor-os/src/fs/vfs.rs).   *)
(*                                                                         *)
(* A path is a sequence of one-character strings.  The operations of the   *)
(* program are operators from a state record `s` to a result record        *)
(* [s, ok, err, v]: the state after the call, Ok/Err, the error and the    *)
(* value.  An action of the state machine is one whole call on the VFS.    *)
(***************************************************************************)
EXTENDS Integers, Sequences, FiniteSets, TLC

(***************************************************************************)
(* Bounds of the model.                                                    *)
(***************************************************************************)
\* how many calls on the VFS a behaviour makes
MaxSteps == 4

(***************************************************************************)
(* Strings.                                                                *)
(***************************************************************************)
SEP == "/"

\* chars().nth(i): the character at 0-based position i, "" for None
CharAt(p, i) == IF i >= 0 /\ i < Len(p) THEN p[i + 1] ELSE ""

\* &p[a..b]: 0-based, a inclusive, b exclusive
Slice(p, a, b) == SubSeq(p, a + 1, b)

\* str::starts_with
starts_with(key, prefix) ==
    /\ Len(prefix) <= Len(key)
    /\ SubSeq(key, 1, Len(prefix)) = prefix

\* str::ends_with("/")
ends_with_sep(p) == Len(p) > 0 /\ p[Len(p)] = SEP

(***************************************************************************)
(* OwnedPath::split_last.                                                  *)
(***************************************************************************)
RECURSIVE split_walk_back(_, _)
split_walk_back(p, start_index) ==
    IF start_index > 1 /\ CharAt(p, start_index - 1) # SEP
    THEN split_walk_back(p, start_index - 1)
    ELSE start_index

\* split_last with the root path split like any other path
split_last_root_walked(p) ==
    IF Len(p) = 0
    THEN [parent |-> <<>>, leaf |-> <<>>]
    ELSE IF p = <<SEP>>
    THEN [parent |-> <<SEP>>, leaf |-> <<>>]
    ELSE LET end_index == Len(p) - 1 - (IF ends_with_sep(p) THEN 1 ELSE 0)
             start_index == split_walk_back(p, end_index)
         IN [parent |-> Slice(p, 0, start_index),
             leaf   |-> Slice(p, start_index, end_index + 1)]

split_last(p) ==
    IF Len(p) = 0 \/ p = <<SEP>>
    THEN [parent |-> <<>>, leaf |-> <<>>]
    ELSE LET end_index == Len(p) - 1 - (IF ends_with_sep(p) THEN 1 ELSE 0)
             start_index == split_walk_back(p, end_index)
         IN [parent |-> Slice(p, 0, start_index),
             leaf   |-> Slice(p, start_index, end_index + 1)]

(***************************************************************************)
(* OwnedPath::canonicalize and canonicalized: [self, out], the receiver    *)
(* after the call and the value returned.                                  *)
(***************************************************************************)
\* the joined text with a separator added whatever cwd ends with
join_cwd_always_sep(p, cwd) == cwd \o <<SEP>> \o p

\* the text canonicalize builds for a path that does not start with "/"
join_cwd(p, cwd) == cwd \o (IF ends_with_sep(cwd) THEN <<>> ELSE <<SEP>>) \o p

canonicalize(p, cwd) ==
    IF ~starts_with(p, <<SEP>>)
    THEN [self |-> join_cwd(p, cwd), out |-> <<>>]
    ELSE [self |-> p, out |-> <<>>]

canonicalized(p, cwd) ==
    IF ~starts_with(p, <<SEP>>)
    THEN [self |-> p, out |-> join_cwd(p, cwd)]
    ELSE [self |-> p, out |-> p]

(***************************************************************************)
(* PathIterator::next, and the whole iteration as the sequence of items.   *)
(***************************************************************************)
RECURSIVE iter_scan_end(_, _)
iter_scan_end(p, end_index) ==
    IF end_index < Len(p) /\ CharAt(p, end_index) # SEP
    THEN iter_scan_end(p, end_index + 1)
    ELSE end_index

\* one call of next() with iter_index = idx: [some, item, idx]
iter_next(p, idx) ==
    LET start_index == IF CharAt(p, idx) = SEP THEN idx + 1 ELSE idx
    IN IF start_index < Len(p)
       THEN LET end_index == iter_scan_end(p, start_index + 1)
            IN [some |-> TRUE,
                item |-> IF end_index >= Len(p)
                         THEN Slice(p, start_index, Len(p))
                         ELSE Slice(p, start_index, end_index),
                idx  |-> end_index]
       ELSE [some |-> FALSE, item |-> <<>>, idx |-> idx]

RECURSIVE iter_from(_, _)
iter_from(p, idx) ==
    LET n == iter_next(p, idx)
    IN IF n.some THEN <<n.item>> \o iter_from(p, n.idx) ELSE <<>>

\* OwnedPath::iter() collected
path_iter(p) == iter_from(p, 0)

(***************************************************************************)
(* Results: FilesystemResult<T>.  `s` is the state the call leaves behind. *)
(***************************************************************************)
Ok(s, v) == [s |-> s, ok |-> TRUE, err |-> <<"">>, v |-> v]
Err(s, e) == [s |-> s, ok |-> FALSE, err |-> e, v |-> <<>>]
\* panic!, todo!(): the kernel aborts (src/qor-os/src/panic.rs)
Panic(s) == [s |-> [s EXCEPT !.panicked = TRUE], ok |-> FALSE,
             err |-> <<"panic">>, v |-> <<>>]

UnableToFindDiskMount(id) == <<"UnableToFindDiskMount", id>>
FileNotFound(path) == <<"FileNotFound", path>>
INodeIsDirectory == <<"INodeIsDirectory">>
INodeIsNotADirectory == <<"INodeIsNotADirectory">>
DirectoryNotEmpty == <<"DirectoryNotEmpty">>
MissingRootMount == <<"MissingRootMount">>
FilesystemNotMounted == <<"FilesystemNotMounted">>

(***************************************************************************)
(* Finite maps (BTreeMap).                                                 *)
(***************************************************************************)
EmptyMap == [x \in {} |-> 0]
Put(f, k, v) == [x \in (DOMAIN f) \cup {k} |-> IF x = k THEN v ELSE f[x]]
Restrict(f, S) == [x \in S |-> f[x]]

\* FilesystemIndex { mount_id, inode }
FsIndex(m, n) == [mount_id |-> m, inode |-> n]

\* FileStat.mode bit that marks a directory
S_IFDIR == 16384
ModeDir == S_IFDIR + 493
ModeFile == 2 * S_IFDIR + 420
HasDirBit(mode) == (mode \div S_IFDIR) % 2 = 1

(***************************************************************************)
(* The backends.  A backend holds its mount id (None until mounted) and an *)
(* inode table; a directory inode holds its entries in listing order.  An  *)
(* entry is local (an inode number of this backend) or a graft (the root   *)
(* index of another mount).                                                *)
(***************************************************************************)
NameDot == <<".">>
NameDotDot == <<".", ".">>

LocalEntry(name, n) == [name |-> name, graft |-> FALSE, mount |-> 0, inode |-> n]
GraftEntry(name, idx) ==
    [name |-> name, graft |-> TRUE, mount |-> idx.mount_id, inode |-> idx.inode]

\* the bytes of a file of the images
FileBytes == <<104, 105>>

DirInode(links, entries) ==
    [exists |-> TRUE, mode |-> ModeDir, links |-> links, entries |-> entries,
     data |-> <<>>]
FileInode(links) ==
    [exists |-> TRUE, mode |-> ModeFile, links |-> links, entries |-> <<>>,
     data |-> FileBytes]
\* the record of an inode that was removed or never allocated
ZeroInode ==
    [exists |-> FALSE, mode |-> 0, links |-> 0, entries |-> <<>>, data |-> <<>>]

Backends == {1, 2}

\* backend 1: /m (a directory holding x), /f and /g (two links to one file)
ImageA ==
    <<DirInode(3, <<LocalEntry(NameDot, 1), LocalEntry(NameDotDot, 1),
                    LocalEntry(<<"m">>, 2), LocalEntry(<<"f">>, 3),
                    LocalEntry(<<"g">>, 3)>>),
      DirInode(2, <<LocalEntry(NameDot, 2), LocalEntry(NameDotDot, 1),
                    LocalEntry(<<"x">>, 4)>>),
      FileInode(2),
      FileInode(1)>>

\* backend 2: /x (a file)
ImageB ==
    <<DirInode(2, <<LocalEntry(NameDot, 1), LocalEntry(NameDotDot, 1),
                    LocalEntry(<<"x">>, 2)>>),
      FileInode(1)>>

Image(b) == IF b = 1 THEN ImageA ELSE ImageB

Ino(s, b, n) ==
    IF n \in DOMAIN s.fs[b].inodes THEN s.fs[b].inodes[n] ELSE ZeroInode

SetIno(s, b, n, rec) == [s EXCEPT !.fs[b].inodes[n] = rec]

Log(s, fn, b) == [s EXCEPT !.calls = Append(@, [fn |-> fn, b |-> b])]

\* the position of the first entry called name, 0 when there is none
RECURSIVE FirstNamed(_, _, _)
FirstNamed(entries, name, k) ==
    IF k > Len(entries) THEN 0
    ELSE IF entries[k].name = name THEN k
    ELSE FirstNamed(entries, name, k + 1)

RemoveAt(seq, k) == SubSeq(seq, 1, k - 1) \o SubSeq(seq, k + 1, Len(seq))

\* Filesystem::set_mount_id
fs_set_mount_id(s, b, id) == [s EXCEPT !.fs[b].mount_id = {id}]

\* Filesystem::get_root_index
fs_get_root_index(s0, b) ==
    LET s == Log(s0, "get_root_index", b)
    IN IF s.fs[b].mount_id # {}
       THEN Ok(s, FsIndex(CHOOSE m \in s.fs[b].mount_id : TRUE, 1))
       ELSE Err(s, FilesystemNotMounted)

\* Filesystem::get_stat
fs_get_stat(s0, b, idx) ==
    LET s == Log(s0, "get_stat", b)
    IN Ok(s, [mode |-> Ino(s, b, idx.inode).mode])

\* Filesystem::get_dir_entries: the entries, tagged with this mount's id
fs_get_dir_entries(s0, b, idx) ==
    LET s == [Log(s0, "get_dir_entries", b) EXCEPT !.listed = Append(@, idx)]
        ino == Ino(s, b, idx.inode)
    IN IF ~HasDirBit(ino.mode)
       THEN Err(s, INodeIsNotADirectory)
       ELSE Ok(s, [k \in 1..Len(ino.entries) |->
                     [index |-> IF ino.entries[k].graft
                                THEN FsIndex(ino.entries[k].mount, ino.entries[k].inode)
                                ELSE FsIndex(idx.mount_id, ino.entries[k].inode),
                      name  |-> ino.entries[k].name]])

\* Filesystem::decrement_links: the count after the decrement
fs_decrement_links(s0, b, idx) ==
    LET s == Log(s0, "decrement_links", b)
        ino == Ino(s, b, idx.inode)
    IN IF ~ino.exists \/ ino.links = 0
       THEN Err(s, FileNotFound(<<>>))
       ELSE Ok(SetIno(s, b, idx.inode, [ino EXCEPT !.links = @ - 1]), ino.links - 1)

\* Filesystem::increment_links: the count after the increment
fs_increment_links(s0, b, idx) ==
    LET s == Log(s0, "increment_links", b)
        ino == Ino(s, b, idx.inode)
    IN IF ~ino.exists
       THEN Err(s, FileNotFound(<<>>))
       ELSE Ok(SetIno(s, b, idx.inode, [ino EXCEPT !.links = @ + 1]), ino.links + 1)

\* Filesystem::remove_dir_entry: drops the first entry called name
fs_remove_dir_entry(s0, b, dir, name) ==
    LET s == Log(s0, "remove_dir_entry", b)
        ino == Ino(s, b, dir.inode)
        k == FirstNamed(ino.entries, name, 1)
    IN IF ~HasDirBit(ino.mode) THEN Err(s, INodeIsNotADirectory)
       ELSE IF k = 0 THEN Err(s, FileNotFound(name))
       ELSE Ok(SetIno(s, b, dir.inode, [ino EXCEPT !.entries = RemoveAt(@, k)]), <<>>)

\* Filesystem::remove_inode: frees the inode record
fs_remove_inode(s0, b, idx) ==
    LET s == Log(s0, "remove_inode", b)
    IN IF ~Ino(s, b, idx.inode).exists
       THEN Err(s, FileNotFound(<<>>))
       ELSE Ok(SetIno(s, b, idx.inode, ZeroInode), <<>>)

\* the inode number a create allocates: the first one past the table
NextInode(s, b) == Len(s.fs[b].inodes) + 1

\* Filesystem::create_file: a new file with one link, entered last in dir
fs_create_file(s0, b, dir, name) ==
    LET s == Log(s0, "create_file", b)
        ino == Ino(s, b, dir.inode)
        n == NextInode(s, b)
    IN IF ~HasDirBit(ino.mode) THEN Err(s, INodeIsNotADirectory)
       ELSE Ok([s EXCEPT !.fs[b].inodes =
                   Append([@ EXCEPT ![dir.inode].entries =
                              Append(@, LocalEntry(name, n))],
                          FileInode(1))],
               FsIndex(dir.mount_id, n))

\* Filesystem::create_directory: a new directory holding "." and ".."
fs_create_directory(s0, b, dir, name) ==
    LET s == Log(s0, "create_directory", b)
        ino == Ino(s, b, dir.inode)
        n == NextInode(s, b)
    IN IF ~HasDirBit(ino.mode) THEN Err(s, INodeIsNotADirectory)
       ELSE Ok([s EXCEPT !.fs[b].inodes =
                   Append([@ EXCEPT ![dir.inode].entries =
                              Append(@, LocalEntry(name, n)),
                                    ![dir.inode].links = @ + 1],
                          DirInode(2, <<LocalEntry(NameDot, n),
                                        LocalEntry(NameDotDot, dir.inode)>>))],
               FsIndex(dir.mount_id, n))

\* Filesystem::mount_fs_at: the entry called name of directory dir now leads
\* to the root of the other mount (entered last when dir has no such entry)
fs_mount_fs_at(s0, b, dir, root, name) ==
    LET s == Log(s0, "mount_fs_at", b)
        ino == Ino(s, b, dir.inode)
        k == FirstNamed(ino.entries, name, 1)
    IN IF ~HasDirBit(ino.mode) THEN Err(s, INodeIsNotADirectory)
       ELSE IF k = 0
       THEN Ok(SetIno(s, b, dir.inode,
                      [ino EXCEPT !.entries = Append(@, GraftEntry(name, root))]), <<>>)
       ELSE Ok(SetIno(s, b, dir.inode,
                      [ino EXCEPT !.entries[k] = GraftEntry(name, root)]), <<>>)

\* Filesystem::read_inode: the bytes of an inode of this mount; an index of
\* another mount is handed back to the VFS
RECURSIVE vfs_read_inode(_, _)
fs_read_inode(s0, b, idx) ==
    LET s == Log(s0, "read_inode", b)
    IN IF s.fs[b].mount_id = {idx.mount_id}
       THEN Ok(s, Ino(s, b, idx.inode).data)
       ELSE IF s.fs[b].mount_id # {}
       THEN vfs_read_inode(s, idx)
       ELSE Err(s, FilesystemNotMounted)

\* Filesystem::write_inode: the inode holds the bytes given
fs_write_inode(s0, b, idx, data) ==
    LET s == Log(s0, "write_inode", b)
        ino == Ino(s, b, idx.inode)
    IN IF ~ino.exists
       THEN Err(s, FileNotFound(<<>>))
       ELSE Ok(SetIno(s, b, idx.inode, [ino EXCEPT !.data = data]), <<>>)

\* Filesystem::open_fd: a descriptor on the inode, positioned at its start
fs_open_fd(s0, b, idx, mode) ==
    LET s == Log(s0, "open_fd", b)
    IN IF ~Ino(s, b, idx.inode).exists
       THEN Err(s, FileNotFound(<<>>))
       ELSE Ok(s, [inode |-> idx, mode |-> mode, index |-> 0])

\* Filesystem::exec_ioctl: an inode of a disk filesystem takes no command
fs_exec_ioctl(s0, b, idx, cmd) ==
    LET s == Log(s0, "exec_ioctl", b)
    IN Ok(s, 0)

(***************************************************************************)
(* The virtual filesystem interface (vfs.rs).  State: mounts (the backend  *)
(* in each slot), root (None or a mount id), index (path -> index) and     *)
(* indexed (index -> path).                                                *)
(***************************************************************************)
\* FilesystemInterface::get_fs_mount: has slot id a backend
get_fs_mount(s, id) == id >= 0 /\ id < Len(s.mounts)
\* the slot taken to be the first one, whatever the id
MountOfFirst(s, id) == s.mounts[1]
MountOf(s, id) == s.mounts[id + 1]

\* FilesystemInterface::get_root_fs_error + Filesystem::get_root_index
vfs_get_root_index(s) ==
    IF s.root = {} THEN Err(s, MissingRootMount)
    ELSE LET id == CHOOSE r \in s.root : TRUE
         IN IF get_fs_mount(s, id)
            THEN fs_get_root_index(s, MountOf(s, id))
            ELSE Err(s, UnableToFindDiskMount(id))

vfs_get_dir_entries(s, inode) ==
    IF get_fs_mount(s, inode.mount_id)
    THEN fs_get_dir_entries(s, MountOf(s, inode.mount_id), inode)
    ELSE Err(s, UnableToFindDiskMount(inode.mount_id))

vfs_get_stat(s, inode) ==
    IF get_fs_mount(s, inode.mount_id)
    THEN fs_get_stat(s, MountOf(s, inode.mount_id), inode)
    ELSE Err(s, UnableToFindDiskMount(inode.mount_id))

vfs_create_file(s, inode, name) ==
    IF get_fs_mount(s, inode.mount_id)
    THEN fs_create_file(s, MountOf(s, inode.mount_id), inode, name)
    ELSE Err(s, UnableToFindDiskMount(inode.mount_id))

vfs_create_directory(s, inode, name) ==
    IF get_fs_mount(s, inode.mount_id)
    THEN fs_create_directory(s, MountOf(s, inode.mount_id), inode, name)
    ELSE Err(s, UnableToFindDiskMount(inode.mount_id))

vfs_remove_inode(s, inode) ==
    IF get_fs_mount(s, inode.mount_id)
    THEN fs_remove_inode(s, MountOf(s, inode.mount_id), inode)
    ELSE Err(s, UnableToFindDiskMount(inode.mount_id))

vfs_increment_links(s, inode) ==
    IF get_fs_mount(s, inode.mount_id)
    THEN fs_increment_links(s, MountOf(s, inode.mount_id), inode)
    ELSE Err(s, UnableToFindDiskMount(inode.mount_id))

vfs_decrement_links(s, inode) ==
    IF get_fs_mount(s, inode.mount_id)
    THEN fs_decrement_links(s, MountOf(s, inode.mount_id), inode)
    ELSE Err(s, UnableToFindDiskMount(inode.mount_id))

vfs_read_inode(s, inode) ==
    IF get_fs_mount(s, inode.mount_id)
    THEN fs_read_inode(s, MountOf(s, inode.mount_id), inode)
    ELSE Err(s, UnableToFindDiskMount(inode.mount_id))

vfs_write_inode(s, inode, data) ==
    IF get_fs_mount(s, inode.mount_id)
    THEN fs_write_inode(s, MountOf(s, inode.mount_id), inode, data)
    ELSE Err(s, UnableToFindDiskMount(inode.mount_id))

vfs_open_fd(s, inode, mode) ==
    IF get_fs_mount(s, inode.mount_id)
    THEN fs_open_fd(s, MountOf(s, inode.mount_id), inode, mode)
    ELSE Err(s, UnableToFindDiskMount(inode.mount_id))

vfs_exec_ioctl(s, inode, cmd) ==
    IF get_fs_mount(s, inode.mount_id)
    THEN fs_exec_ioctl(s, MountOf(s, inode.mount_id), inode, cmd)
    ELSE Err(s, UnableToFindDiskMount(inode.mount_id))

vfs_mount_fs_at(s, inode, root, name) ==
    IF get_fs_mount(s, inode.mount_id)
    THEN fs_mount_fs_at(s, MountOf(s, inode.mount_id), inode, root, name)
    ELSE Err(s, UnableToFindDiskMount(inode.mount_id))

\* FilesystemInterface::index_from: the loop over the entries, from entry k
RECURSIVE index_from(_, _, _), index_entries(_, _, _, _)
index_entries(s, path, entries, k) ==
    IF k > Len(entries) THEN Ok(s, <<>>)
    ELSE LET r == index_from(s, path \o <<SEP>> \o entries[k].name, entries[k].index)
         IN IF r.ok THEN index_entries(r.s, path, entries, k + 1) ELSE r

\* index_from that lists the directory before it looks for the inode in
\* the reverse cache
index_from_late(s, path, inode) ==
    LET r0 == vfs_get_dir_entries(s, inode)
    IN IF inode \in DOMAIN s.indexed THEN Ok(r0.s, <<>>)
       ELSE LET s1 == [r0.s EXCEPT !.index = IF Len(path) > 0 THEN Put(@, path, inode) ELSE @,
                                   !.indexed = Put(@, inode, path)]
            IN IF r0.ok
               THEN index_entries([s1 EXCEPT !.index = Put(@, path \o <<SEP>>, inode)],
                                  path, r0.v, 1)
               ELSE IF r0.err = INodeIsNotADirectory THEN Ok(s1, <<>>)
               ELSE Err(s1, r0.err)

\* index_from that caches a directory under its bare path alone
index_from_bare(s, path, inode) ==
    IF inode \in DOMAIN s.indexed THEN Ok(s, <<>>)
    ELSE LET s1 == [s EXCEPT !.index = IF Len(path) > 0 THEN Put(@, path, inode) ELSE @,
                             !.indexed = Put(@, inode, path)]
             r == vfs_get_dir_entries(s1, inode)
         IN IF r.ok
            THEN index_entries(r.s, path, r.v, 1)
            ELSE IF r.err = INodeIsNotADirectory THEN Ok(r.s, <<>>)
            ELSE Err(r.s, r.err)

\* FilesystemInterface::index_from
index_from(s, path, inode) ==
    IF inode \in DOMAIN s.indexed THEN Ok(s, <<>>)
    ELSE LET s1 == [s EXCEPT !.index = IF Len(path) > 0 THEN Put(@, path, inode) ELSE @,
                             !.indexed = Put(@, inode, path)]
             r == vfs_get_dir_entries(s1, inode)
         IN IF r.ok
            THEN index_entries([r.s EXCEPT !.index = Put(@, path \o <<SEP>>, inode)],
                               path, r.v, 1)
            ELSE IF r.err = INodeIsNotADirectory THEN Ok(r.s, <<>>)
            ELSE Err(r.s, r.err)

\* FilesystemInterface::index
vfs_index(s) ==
    LET r == vfs_get_root_index([s EXCEPT !.index = EmptyMap, !.indexed = EmptyMap])
    IN IF r.ok THEN index_from(r.s, <<>>, r.v) ELSE r

\* invalidate_index that evicts the one key equal to path
invalidate_index_exact(s, path) ==
    Ok([s EXCEPT !.index = Restrict(@, {key \in DOMAIN @ : key # path})], <<>>)

\* invalidate_index that evicts path and the keys below the directory path
invalidate_index_component(s, path) ==
    Ok([s EXCEPT !.index =
           Restrict(@, {key \in DOMAIN @ :
                           key # path /\ ~starts_with(key, path \o <<SEP>>)})], <<>>)

\* FilesystemInterface::invalidate_index
invalidate_index(s, path) ==
    Ok([s EXCEPT !.index =
           Restrict(@, {key \in DOMAIN @ : ~starts_with(key, path)})], <<>>)

\* the walk that steps over a component no entry bears
RECURSIVE walk_lenient(_, _, _, _, _)
walk_lenient(s, path, names, k, index) ==
    IF k > Len(names) THEN Ok(s, index)
    ELSE LET r == vfs_get_dir_entries(s, index)
         IN IF ~r.ok THEN r
            ELSE LET e == FirstNamed(r.v, names[k], 1)
                 IN IF e = 0 THEN walk_lenient(r.s, path, names, k + 1, index)
                    ELSE walk_lenient(r.s, path, names, k + 1, r.v[e].index)

\* Filesystem::path_to_inode for the VFS: the walk from component k on
RECURSIVE walk(_, _, _, _, _)
walk(s, path, names, k, index) ==
    IF k > Len(names) THEN Ok(s, index)
    ELSE LET r == vfs_get_dir_entries(s, index)
         IN IF ~r.ok THEN r
            ELSE LET e == FirstNamed(r.v, names[k], 1)
                 IN IF e = 0 THEN Err(r.s, FileNotFound(path))
                    ELSE walk(r.s, path, names, k + 1, r.v[e].index)

\* Filesystem::path_to_inode for the VFS
\* path_to_inode that enters the result of a walk in the forward cache
vfs_path_to_inode_caching(s, path) ==
    IF path \in DOMAIN s.index THEN Ok(s, s.index[path])
    ELSE LET r == vfs_get_root_index(s)
             w == walk(r.s, path, path_iter(path), 1, r.v)
         IN IF ~r.ok THEN r
            ELSE IF w.ok THEN Ok([w.s EXCEPT !.index = Put(@, path, w.v)], w.v)
            ELSE w

vfs_path_to_inode(s, path) ==
    IF path \in DOMAIN s.index THEN Ok(s, s.index[path])
    ELSE LET r == vfs_get_root_index(s)
         IN IF r.ok THEN walk(r.s, path, path_iter(path), 1, r.v) ELSE r

\* Filesystem::inode_to_path for the VFS
vfs_inode_to_path(s, inode) ==
    LET r == IF inode \notin DOMAIN s.indexed THEN vfs_index(s) ELSE Ok(s, <<>>)
    IN IF ~r.ok THEN r
       ELSE IF inode \in DOMAIN r.s.indexed THEN Ok(r.s, r.s.indexed[inode])
       ELSE Panic(r.s)

\* Filesystem::remove_dir_entry for the VFS
vfs_remove_dir_entry(s, directory_index, name) ==
    IF get_fs_mount(s, directory_index.mount_id)
    THEN LET r1 == fs_remove_dir_entry(s, MountOf(s, directory_index.mount_id),
                                       directory_index, name)
         IN IF ~r1.ok THEN r1
            ELSE LET r2 == vfs_inode_to_path(r1.s, directory_index)
                 IN IF ~r2.ok THEN r2 ELSE invalidate_index(r2.s, r2.v)
    ELSE Err(s, UnableToFindDiskMount(directory_index.mount_id))

\* mount_fs that counts the mount ids from 1
mount_fs_one_based(s, path, b) ==
    LET id == Len(s.mounts) + 1
        r == fs_get_root_index(fs_set_mount_id(s, b, id), b)
    IN IF ~r.ok THEN r
       ELSE LET s2 == [r.s EXCEPT !.mounts = Append(@, b)]
            IN IF path = <<SEP>>
               THEN Ok([s2 EXCEPT !.root = {id}], <<>>)
               ELSE IF s2.root = {} THEN Err(s2, MissingRootMount)
               ELSE LET sp == split_last(path)
                        ri == vfs_path_to_inode(s2, sp.parent)
                    IN IF ~ri.ok THEN ri
                       ELSE vfs_mount_fs_at(ri.s, ri.v, r.v, sp.leaf)

\* mount_fs that grafts the new mount under the leaf name in the root directory
mount_fs_in_root(s, path, b) ==
    LET id == Len(s.mounts)
        r == fs_get_root_index(fs_set_mount_id(s, b, id), b)
    IN IF ~r.ok THEN r
       ELSE LET s2 == [r.s EXCEPT !.mounts = Append(@, b)]
            IN IF path = <<SEP>>
               THEN Ok([s2 EXCEPT !.root = {id}], <<>>)
               ELSE IF s2.root = {} THEN Err(s2, MissingRootMount)
               ELSE LET sp == split_last(path)
                        ri == vfs_path_to_inode(s2, <<SEP>>)
                    IN IF ~ri.ok THEN ri
                       ELSE vfs_mount_fs_at(ri.s, ri.v, r.v, sp.leaf)

\* FilesystemInterface::mount_fs
mount_fs(s, path, b) ==
    LET id == Len(s.mounts)
        r == fs_get_root_index(fs_set_mount_id(s, b, id), b)
    IN IF ~r.ok THEN r
       ELSE LET s2 == [r.s EXCEPT !.mounts = Append(@, b)]
            IN IF path = <<SEP>>
               THEN Ok([s2 EXCEPT !.root = {id}], <<>>)
               ELSE IF s2.root = {} THEN Err(s2, MissingRootMount)
               ELSE LET sp == split_last(path)
                        ri == vfs_path_to_inode(s2, sp.parent)
                    IN IF ~ri.ok THEN ri
                       ELSE vfs_mount_fs_at(ri.s, ri.v, r.v, sp.leaf)

(***************************************************************************)
(* The default algorithms of the Filesystem trait (fstrait.rs), run with   *)
(* the VFS as self.                                                        *)
(***************************************************************************)
\* Filesystem::assert_not_directory
assert_not_directory(s, inode) ==
    LET r == vfs_get_stat(s, inode)
    IN IF ~r.ok THEN r
       ELSE IF HasDirBit(r.v.mode) THEN Err(r.s, INodeIsDirectory)
       ELSE Ok(r.s, <<>>)

\* Filesystem::assert_directory
assert_directory(s, inode) ==
    LET r == vfs_get_stat(s, inode)
    IN IF ~r.ok THEN r
       ELSE IF HasDirBit(r.v.mode) THEN Ok(r.s, <<>>)
       ELSE Err(r.s, INodeIsNotADirectory)

\* unlink_inode with the two removals made when the count is still positive
unlink_inode_early(s, inode, directory, name) ==
    LET r1 == assert_not_directory(s, inode)
    IN IF ~r1.ok THEN r1 ELSE
    LET r2 == assert_directory(r1.s, directory)
    IN IF ~r2.ok THEN r2 ELSE
    LET r3 == vfs_decrement_links(r2.s, inode)
    IN IF ~r3.ok THEN r3 ELSE
    IF r3.v <= 1
    THEN LET r4 == vfs_remove_dir_entry(r3.s, directory, name)
         IN IF ~r4.ok THEN r4 ELSE
            LET r5 == vfs_remove_inode(r4.s, inode)
            IN IF ~r5.ok THEN r5 ELSE Ok(r5.s, <<>>)
    ELSE Ok(r3.s, <<>>)

\* unlink_inode with the two assertions in the other order
unlink_inode_swapped(s, inode, directory, name) ==
    LET r1 == assert_directory(s, directory)
    IN IF ~r1.ok THEN r1 ELSE
    LET r2 == assert_not_directory(r1.s, inode)
    IN IF ~r2.ok THEN r2 ELSE
    LET r3 == vfs_decrement_links(r2.s, inode)
    IN IF ~r3.ok THEN r3 ELSE
    IF r3.v = 0
    THEN LET r4 == vfs_remove_dir_entry(r3.s, directory, name)
         IN IF ~r4.ok THEN r4 ELSE
            LET r5 == vfs_remove_inode(r4.s, inode)
            IN IF ~r5.ok THEN r5 ELSE Ok(r5.s, <<>>)
    ELSE Ok(r3.s, <<>>)

\* Filesystem::unlink_inode
unlink_inode(s, inode, directory, name) ==
    LET r1 == assert_not_directory(s, inode)
    IN IF ~r1.ok THEN r1 ELSE
    LET r2 == assert_directory(r1.s, directory)
    IN IF ~r2.ok THEN r2 ELSE
    LET r3 == vfs_decrement_links(r2.s, inode)
    IN IF ~r3.ok THEN r3 ELSE
    IF r3.v = 0
    THEN LET r4 == vfs_remove_dir_entry(r3.s, directory, name)
         IN IF ~r4.ok THEN r4 ELSE
            LET r5 == vfs_remove_inode(r4.s, inode)
            IN IF ~r5.ok THEN r5 ELSE Ok(r5.s, <<>>)
    ELSE Ok(r3.s, <<>>)

\* remove_directory that counts ".." as an entry of the directory
remove_directory_dotdot(s, inode, parent, name) ==
    LET r1 == assert_directory(s, inode)
    IN IF ~r1.ok THEN r1 ELSE
    LET r2 == assert_directory(r1.s, parent)
    IN IF ~r2.ok THEN r2 ELSE
    LET r3 == vfs_get_dir_entries(r2.s, inode)
    IN IF ~r3.ok THEN r3 ELSE
    IF \E k \in 1..Len(r3.v) : r3.v[k].name # NameDot
    THEN Err(r3.s, DirectoryNotEmpty)
    ELSE LET r4 == vfs_remove_dir_entry(r3.s, parent, name)
         IN IF ~r4.ok THEN r4 ELSE
            LET r5 == vfs_remove_inode(r4.s, inode)
            IN IF ~r5.ok THEN r5 ELSE Ok(r5.s, <<>>)

\* remove_directory without the assertion on parent
remove_directory_unchecked(s, inode, parent, name) ==
    LET r1 == assert_directory(s, inode)
    IN IF ~r1.ok THEN r1 ELSE
    LET r3 == vfs_get_dir_entries(r1.s, inode)
    IN IF ~r3.ok THEN r3 ELSE
    IF \E k \in 1..Len(r3.v) : r3.v[k].name # NameDot /\ r3.v[k].name # NameDotDot
    THEN Err(r3.s, DirectoryNotEmpty)
    ELSE LET r4 == vfs_remove_dir_entry(r3.s, parent, name)
         IN IF ~r4.ok THEN r4 ELSE
            LET r5 == vfs_remove_inode(r4.s, inode)
            IN IF ~r5.ok THEN r5 ELSE Ok(r5.s, <<>>)

\* Filesystem::remove_directory
remove_directory(s, inode, parent, name) ==
    LET r1 == assert_directory(s, inode)
    IN IF ~r1.ok THEN r1 ELSE
    LET r2 == assert_directory(r1.s, parent)
    IN IF ~r2.ok THEN r2 ELSE
    LET r3 == vfs_get_dir_entries(r2.s, inode)
    IN IF ~r3.ok THEN r3 ELSE
    IF \E k \in 1..Len(r3.v) : r3.v[k].name # NameDot /\ r3.v[k].name # NameDotDot
    THEN Err(r3.s, DirectoryNotEmpty)
    ELSE LET r4 == vfs_remove_dir_entry(r3.s, parent, name)
         IN IF ~r4.ok THEN r4 ELSE
            LET r5 == vfs_remove_inode(r4.s, inode)
            IN IF ~r5.ok THEN r5 ELSE Ok(r5.s, <<>>)

(***************************************************************************)
(* The state machine: one VFS instance and the backends handed to it.      *)
(***************************************************************************)
VARIABLES
    mounts,      \* FilesystemInterface.mounts: the backend in each slot
    root,        \* FilesystemInterface.root: {} (None) or {mount id}
    index,       \* FilesystemInterface.index: path -> FilesystemIndex
    indexed,     \* FilesystemInterface.indexed: FilesystemIndex -> path
    fs,          \* the backends: mount id and inode table of each
    panicked,    \* the kernel has aborted
    last,        \* the last call: operation, arguments, result, backend calls
                 \* and the indices whose directories were listed
    unlinkOnly,  \* history: every directory-changing call so far was unlink_inode
    steps        \* history: the number of calls so far

vfsVars == <<mounts, root, index, indexed, fs, panicked, last, unlinkOnly, steps>>

\* the registration of the VFS singleton (vfs.rs:13-55)
VARIABLES
    vfsInterface,  \* VFS_INTERFACE: 0 (null) or the number of the instance stored
    newPc,         \* each execution context's place in FilesystemInterface::new
    newCalls,      \* history: the calls of new each context has begun
    leaked,        \* history: the instances created and registered so far
    lastRef        \* each context's last result of get_vfs_reference or new

singletonVars == <<vfsInterface, newPc, newCalls, leaked, lastRef>>

\* how many execution contexts there are, and how often each calls new
NumContexts == 3
MaxNewCalls == 2
Contexts == 1..NumContexts

\* the state after the boot context has called new once
SingletonRegistered ==
    /\ vfsInterface = 1
    /\ newPc = [c \in Contexts |-> "idle"]
    /\ newCalls = [c \in Contexts |-> IF c = 1 THEN 1 ELSE 0]
    /\ leaked = 1
    /\ lastRef = [c \in Contexts |-> IF c = 1 THEN 1 ELSE 0]

\* one OwnedPath and the PathIterator made from it (path.rs)
VARIABLES
    ownedPath,   \* OwnedPath.path
    iter,        \* the PathIterator: is there one, its iter_index ({} for None)
                 \* and, as history, the items it has yielded
    pathOut      \* the last call on the path: operation, argument, value

pathVars == <<ownedPath, iter, pathOut>>

\* no path is being worked on
PathIdle ==
    /\ ownedPath = <<>>
    /\ iter = [live |-> FALSE, iter_index |-> {}, yielded |-> <<>>]
    /\ pathOut = [op |-> "none", arg |-> <<>>, v |-> <<>>]

(***************************************************************************)
(* The Minix3 driver (fs/minix3/driver.rs) over a block device.  The       *)
(* device of the model has short blocks: a block is BlockLen bytes (1024   *)
(* on the real device), a zone pointer PtrLen bytes (4) and a directory    *)
(* record DirEntryLen bytes (64), so that the indirect blocks and the      *)
(* directories of the images stay small.                                   *)
(***************************************************************************)
\* Minix3SuperBlock.magic of a Minix3 filesystem (0x4d5a)
MINIX3_MAGIC == 19802
\* the inode records of one block of the inode table
InodesPerBlock == 16
\* the bytes of one block of the device
BlockLen == 4
\* the bytes of one zone pointer, little-endian
PtrLen == 2
\* the bytes of one directory record: the inode number, then the name
DirEntryLen == 4
\* the largest inode number the images hold
MaxInodeNumber == 34
\* usize::MAX + 1 of the model (2^64 on the target)
UsizeModulus == 65536

BadFilesystemFormat == <<"BadFilesystemFormat">>
FilesystemUninitialized == <<"FilesystemUninitialized">>

\* Minix3Inode { mode, size, zones: [u32; 10] }
MinixInode(mode, size, zones) == [mode |-> mode, size |-> size, zones |-> zones]
NoZones == [i \in 1..10 |-> 0]
\* the zone array with the values of f at the (0-based) positions f maps
ZonesAt(f) == [i \in 1..10 |-> IF (i - 1) \in DOMAIN f THEN f[i - 1] ELSE 0]

\* a block of file data: bytes that tell the block and the place in it
DataBlock(b) == [k \in 1..BlockLen |-> 10 * b + k]
\* a block padded with zero bytes
Padded(bytes) == [k \in 1..BlockLen |-> IF k <= Len(bytes) THEN bytes[k] ELSE 0]
\* a zone pointer as its PtrLen bytes, least significant first
le_bytes(p) == [j \in 1..PtrLen |-> (p \div (256 ^ (j - 1))) % 256]
\* an indirect block holding two zone pointers
PtrBlock(p, q) == Padded(le_bytes(p) \o le_bytes(q))

\* the records of the root directory of the images: "a" for inode 2, its
\* name ended by a zero byte that a stale byte follows, "bcd" for inode 3,
\* a name that fills the record, and an unused record of inode number 0
DirBytes == <<2, 97, 0, 98,  3, 98, 99, 100,  0, 0, 0, 0>>
\* the k-th block of the root directory
DirChunk(k) ==
    Padded(SubSeq(DirBytes, (k - 1) * BlockLen + 1,
                  IF k * BlockLen < Len(DirBytes) THEN k * BlockLen
                  ELSE Len(DirBytes)))

\* the blocks of the data area of the images: blocks 10, 25 and 26 hold
\* the root directory, 11..14, 16, 20 and 21 hold file data, 15 is a
\* single indirect block, 17 a double indirect block over 18 and 19, and
\* 22 a triple indirect block over 23 and 24
ImageBlock(b) ==
    CASE b = 10 -> DirChunk(1)
      [] b = 25 -> DirChunk(2)
      [] b = 26 -> DirChunk(3)
      [] b \in {11, 12, 13, 14, 16, 20, 21} -> DataBlock(b)
      [] b = 15 -> PtrBlock(0, 16)
      [] b = 17 -> PtrBlock(18, 19)
      [] b = 18 -> PtrBlock(20, 0)
      [] b = 19 -> PtrBlock(0, 21)
      [] b = 22 -> PtrBlock(0, 23)
      [] b = 23 -> PtrBlock(24, 0)
      [] b = 24 -> PtrBlock(12, 13)
      [] OTHER -> Padded(<<>>)

\* the inodes of the images: 1 is the root directory; 2 a file shorter
\* than its one zone; 3 a file of direct zones, a hole among them, and a
\* single indirect zone, its size the bytes its zones hold; 4 a file with a
\* double and a triple indirect zone whose zones hold fewer bytes than its
\* size; 5 an empty file that has a zone; 6 a file whose size ends inside
\* its double indirect zone; 17 and 33 are files of the second and the
\* third block of the inode table
ImageInode(n) ==
    CASE n = 1 -> MinixInode(ModeDir, Len(DirBytes),
                             ZonesAt(0 :> 10 @@ 1 :> 25 @@ 2 :> 26))
      [] n = 2 -> MinixInode(ModeFile, BlockLen - 1, ZonesAt(0 :> 11))
      [] n = 3 -> MinixInode(ModeFile, 4 * BlockLen,
                             ZonesAt(0 :> 11 @@ 2 :> 12 @@ 6 :> 13 @@ 7 :> 15))
      [] n = 4 -> MinixInode(ModeFile, 5 * BlockLen + 2,
                             ZonesAt(0 :> 14 @@ 8 :> 17 @@ 9 :> 22))
      [] n = 5 -> MinixInode(ModeFile, 0, ZonesAt(0 :> 11))
      [] n = 6 -> MinixInode(ModeFile, BlockLen + 1, ZonesAt(7 :> 15 @@ 8 :> 17))
      [] n = 17 -> MinixInode(ModeFile, 2, ZonesAt(0 :> 12))
      [] n = 33 -> MinixInode(ModeFile, 1, ZonesAt(0 :> 13))
      [] OTHER -> MinixInode(0, 0, NoZones)

\* a device: the superblock at byte 1024 and, as the layout of the image,
\* the inode table after the boot block, the superblock and the two maps
DiskImage(magic, imap_blocks, zmap_blocks) ==
    [magic |-> magic, imap_blocks |-> imap_blocks, zmap_blocks |-> zmap_blocks]
DiskInputs ==
    {DiskImage(magic, i, z) : magic \in {MINIX3_MAGIC, 0}, i \in 1..2, z \in 1..2}

\* read_block_to_buffer: the bytes of a block
read_block_to_buffer(d, block) == ImageBlock(block)

\* the record at `slot` of a block read as a block of the inode table
InodeRecordAt(d, block, slot) ==
    LET first == 2 + d.imap_blocks + d.zmap_blocks
        n == (block - first) * InodesPerBlock + slot + 1
    IN IF block >= first /\ n \in 1..MaxInodeNumber
       THEN ImageInode(n)
       ELSE MinixInode(0, 0, NoZones)

\* transmute::<Box<[u8; 1024]>, Box<[u32; 256]>>: the block as zone pointers
RECURSIVE le_value(_, _, _)
le_value(bytes, from, j) ==
    IF j > PtrLen THEN 0
    ELSE bytes[from + j] + 256 * le_value(bytes, from, j + 1)
as_u32s(bytes) ==
    [k \in 1..(Len(bytes) \div PtrLen) |-> le_value(bytes, (k - 1) * PtrLen, 1)]

\* Minix3Filesystem::new
MinixNew == [mount_id |-> {}, vfs |-> FALSE, superblock |-> {}]

\* init that caches whatever superblock it has read
minix_init_unverified(m, d) ==
    [m |-> [m EXCEPT !.superblock =
                {[magic |-> d.magic, imap_blocks |-> d.imap_blocks,
                  zmap_blocks |-> d.zmap_blocks]}],
     ok |-> TRUE, err |-> <<"">>]

\* Filesystem::init: [m, ok, err]
minix_init(m, d) ==
    LET superblock == [magic |-> d.magic, imap_blocks |-> d.imap_blocks,
                       zmap_blocks |-> d.zmap_blocks]
    IN IF superblock.magic # MINIX3_MAGIC
       THEN [m |-> m, ok |-> FALSE, err |-> BadFilesystemFormat]
       ELSE [m |-> [m EXCEPT !.superblock = {superblock}], ok |-> TRUE,
             err |-> <<"">>]

\* Filesystem::set_mount_id
minix_set_mount_id(m, mount_id) == [m EXCEPT !.mount_id = {mount_id}, !.vfs = TRUE]

\* get_inode: the block of the inode table and the record of it
\* a - b on usize without overflow checks
wrapping_sub(a, b) == (a - b) % UsizeModulus

minix_block_index_from_zero(superblock, inode_number) ==
    inode_number \div InodesPerBlock + 2 + superblock.imap_blocks
        + superblock.zmap_blocks
minix_block_index(superblock, inode_number) ==
    wrapping_sub(inode_number, 1) \div InodesPerBlock + 2 + superblock.imap_blocks
        + superblock.zmap_blocks
minix_slot(inode_number) == wrapping_sub(inode_number, 1) % InodesPerBlock

\* get_inode that, without a superblock, reads as if the maps were empty
minix_get_inode_unguarded(m, d, inode_number, checks) ==
    LET superblock == IF m.superblock # {} THEN CHOOSE x \in m.superblock : TRUE
                      ELSE [magic |-> 0, imap_blocks |-> 0, zmap_blocks |-> 0]
        block_index == minix_block_index(superblock, inode_number)
        slot == minix_slot(inode_number)
    IN [ok |-> TRUE, err |-> <<"">>,
        v |-> InodeRecordAt(d, block_index, slot),
        lookup |-> <<[block |-> block_index, slot |-> slot]>>]

\* get_inode: [ok, err, v, lookup], lookup the block read and the record
\* taken of it.  inode_number - 1 overflows for inode number 0: a build
\* with overflow checks panics there, a build without them wraps around.
minix_get_inode(m, d, inode_number, checks) ==
    IF m.superblock # {}
    THEN IF inode_number = 0 /\ checks
         THEN [ok |-> FALSE, err |-> <<"panic">>,
               v |-> MinixInode(0, 0, NoZones), lookup |-> <<>>]
         ELSE LET superblock == CHOOSE x \in m.superblock : TRUE
                  block_index == minix_block_index(superblock, inode_number)
                  slot == minix_slot(inode_number)
              IN [ok |-> TRUE, err |-> <<"">>,
                  v |-> InodeRecordAt(d, block_index, slot),
                  lookup |-> <<[block |-> block_index, slot |-> slot]>>]
    ELSE [ok |-> FALSE, err |-> FilesystemUninitialized,
          v |-> MinixInode(0, 0, NoZones), lookup |-> <<>>]

\* The data read works on r = [buffer, index, remaining, offset, events]:
\* the output, the three counters read_zone is handed, and as history
\* every block read and every byte written with the counters at that time.
ReadEvent(zone, level, r) ==
    [kind |-> "read", block |-> zone, level |-> level, at |-> r.index,
     index |-> r.index, remaining |-> r.remaining]
WriteEvent(zone, r) ==
    [kind |-> "write", block |-> zone, level |-> 0, at |-> r.index,
     index |-> r.index + 1, remaining |-> r.remaining - 1]

RECURSIVE minix_read_zone(_, _, _, _), minix_read_zone_unchecked(_, _, _, _),
          read_zone_bytes(_, _, _, _), read_zone_entries(_, _, _, _, _)

\* read_zone, level 0: the loop over the bytes of the block, from byte k
read_zone_bytes(zone, data, k, r) ==
    IF k > Len(data) THEN r
    ELSE IF r.offset > 0
    THEN read_zone_bytes(zone, data, k + 1, [r EXCEPT !.offset = @ - 1])
    ELSE LET w == [r EXCEPT
                     !.buffer = IF r.index < Len(@)
                                THEN [@ EXCEPT ![r.index + 1] = data[k]]
                                ELSE @,
                     !.index = @ + 1,
                     !.remaining = @ - 1,
                     !.events = Append(@, WriteEvent(zone, r))]
         IN IF w.remaining = 0 THEN w
            ELSE read_zone_bytes(zone, data, k + 1, w)

\* read_zone, level > 0: the loop over the pointers of the block, from
\* pointer k
read_zone_entries(d, ptrs, k, level, r) ==
    IF k > Len(ptrs) THEN r
    ELSE IF ptrs[k] = 0 THEN read_zone_entries(d, ptrs, k + 1, level, r)
    ELSE LET w == minix_read_zone(d, ptrs[k], level - 1, r)
         IN IF w.remaining = 0 THEN w
            ELSE read_zone_entries(d, ptrs, k + 1, level, w)

\* read_zone without its test of the remaining counter
minix_read_zone_unchecked(d, zone, level, r) ==
    LET logged == [r EXCEPT !.events = Append(@, ReadEvent(zone, level, r))]
    IN IF level = 0
       THEN read_zone_bytes(zone, read_block_to_buffer(d, zone), 1, logged)
       ELSE read_zone_entries(d, as_u32s(read_block_to_buffer(d, zone)), 1,
                              level, logged)

\* read_zone
minix_read_zone(d, zone, level, r) ==
    IF r.remaining = 0 THEN r
    ELSE LET logged == [r EXCEPT !.events = Append(@, ReadEvent(zone, level, r))]
         IN IF level = 0
            THEN read_zone_bytes(zone, read_block_to_buffer(d, zone), 1, logged)
            ELSE read_zone_entries(d, as_u32s(read_block_to_buffer(d, zone)), 1,
                                   level, logged)

\* i.max(6) - 6
ZoneLevel(i) == (IF i > 6 THEN i ELSE 6) - 6

RECURSIVE read_inode_zones_seven_direct(_, _, _, _), read_inode_zones(_, _, _, _)
\* the loop of read_inode with position 7 read as a direct zone
read_inode_zones_seven_direct(d, inode, i, r) ==
    IF i >= Len(inode.zones) THEN r
    ELSE IF inode.zones[i + 1] = 0
    THEN read_inode_zones_seven_direct(d, inode, i + 1, r)
    ELSE read_inode_zones_seven_direct(d, inode, i + 1,
            minix_read_zone(d, inode.zones[i + 1],
                            (IF i > 7 THEN i ELSE 7) - 7, r))

\* read_inode(Minix3Inode): the loop over the zones, from position i
read_inode_zones(d, inode, i, r) ==
    IF i >= Len(inode.zones) THEN r
    ELSE IF inode.zones[i + 1] = 0 THEN read_inode_zones(d, inode, i + 1, r)
    ELSE read_inode_zones(d, inode, i + 1,
            minix_read_zone(d, inode.zones[i + 1], ZoneLevel(i), r))

\* read_inode(Minix3Inode)
read_inode_data(d, inode) ==
    read_inode_zones(d, inode, 0,
        [buffer |-> [k \in 1..inode.size |-> 0], index |-> 0,
         remaining |-> inode.size, offset |-> 0, events |-> <<>>])

\* a result of the trait's calls: the value, the inode record looked up,
\* the lookup made and the events of the data read
MinixResult(ok, err, v, inode, lookup, events) ==
    [ok |-> ok, err |-> err, v |-> v, inode |-> inode, lookup |-> lookup,
     events |-> events]
MinixErr(e, lookup) ==
    MinixResult(FALSE, e, <<>>, MinixInode(0, 0, NoZones), lookup, <<>>)

\* Filesystem::read_inode; `s` is the VFS the driver was mounted by
minix_read_inode(m, d, s, inode, checks) ==
    IF {inode.mount_id} = m.mount_id
    THEN LET g == minix_get_inode(m, d, inode.inode, checks)
         IN IF ~g.ok THEN MinixErr(g.err, g.lookup)
            ELSE LET r == read_inode_data(d, g.v)
                 IN MinixResult(TRUE, <<"">>, r.buffer, g.v, g.lookup, r.events)
    ELSE IF m.vfs
    THEN LET x == vfs_read_inode(s, inode)
         IN MinixResult(x.ok, x.err, x.v, MinixInode(0, 0, NoZones), <<>>, <<>>)
    ELSE MinixErr(FilesystemNotMounted, <<>>)

\* the name of a directory record: its bytes up to the first zero byte
RECURSIVE entry_name_uncut(_, _, _), entry_name(_, _, _)
\* the name with its zero bytes left out instead of ending it
entry_name_uncut(data, from, j) ==
    IF j > DirEntryLen - 1 THEN <<>>
    ELSE (IF data[from + j] = 0 THEN <<>> ELSE <<data[from + j]>>)
            \o entry_name_uncut(data, from, j + 1)

entry_name(data, from, j) ==
    IF j > DirEntryLen - 1 \/ data[from + j] = 0 THEN <<>>
    ELSE <<data[from + j]>> \o entry_name(data, from, j + 1)

\* Filesystem::get_dir_entries
minix_get_dir_entries(m, d, s, inode, checks) ==
    IF {inode.mount_id} = m.mount_id
    THEN LET g == minix_get_inode(m, d, inode.inode, checks)
         IN IF ~g.ok THEN MinixErr(g.err, g.lookup)
            ELSE IF ~HasDirBit(g.v.mode)
            THEN MinixResult(FALSE, INodeIsNotADirectory, <<>>, g.v,
                             g.lookup, <<>>)
            ELSE LET r == read_inode_data(d, g.v)
                     result ==
                         [i \in 1..(g.v.size \div DirEntryLen) |->
                            [index |-> FsIndex(inode.mount_id,
                                               r.buffer[(i - 1) * DirEntryLen + 1]),
                             name |-> entry_name(r.buffer,
                                                 (i - 1) * DirEntryLen + 1, 1),
                             entry_type |-> "Unknown"]]
                 IN MinixResult(TRUE, <<"">>, result, g.v, g.lookup, r.events)
    ELSE IF m.vfs
    THEN LET x == vfs_get_dir_entries(s, inode)
         IN MinixResult(x.ok, x.err, x.v, MinixInode(0, 0, NoZones), <<>>, <<>>)
    ELSE MinixErr(FilesystemNotMounted, <<>>)

\* one Minix3Filesystem and the device it drives
VARIABLES
    disk,    \* the image on the block device
    minix,   \* Minix3Filesystem: mount_id, vfs and superblock ({} for None)
    mxOut,   \* the last call on the driver: operation, argument and result
    initOk   \* history: a call of init has returned Ok

minixVars == <<disk, minix, mxOut, initOk>>

MinixNoCall ==
    [op |-> "new", arg |-> <<>>,
     out |-> MinixResult(TRUE, <<"">>, <<>>, MinixInode(0, 0, NoZones), <<>>, <<>>)]

\* a driver that has been made and not used
MinixIdle ==
    /\ disk = DiskImage(MINIX3_MAGIC, 1, 1)
    /\ minix = MinixNew
    /\ mxOut = MinixNoCall
    /\ initOk = FALSE

\* two execution contexts inside mount_fs on the one VFS instance
VARIABLES
    mountPc,     \* each context's place in mount_fs
    mountLocal   \* each context's locals: path, id, root, the length push read

raceVars == <<mountPc, mountLocal>>

NoMountLocal == [path |-> <<>>, id |-> 0, root |-> FsIndex(0, 0), len |-> 0,
                 ok |-> TRUE, err |-> <<"">>]

\* no context is inside mount_fs
RaceIdle ==
    /\ mountPc = [c \in Backends |-> "idle"]
    /\ mountLocal = [c \in Backends |-> NoMountLocal]

\* the InodeFileDescriptors of a process (process/descriptor.rs)
VARIABLES
    fds,       \* each descriptor: its stage of life and its fields
    fdOut,     \* the last call on a descriptor: operation, arguments, result
    flushes    \* history: the calls of write_inode each descriptor has made

fdVars == <<fds, fdOut, flushes>>

Descriptors == {1, 2}
NoDescriptor ==
    [st |-> "none", inode |-> FsIndex(0, 0), index |-> 0, data |-> <<>>,
     is_write |-> FALSE, is_read |-> FALSE, mode |-> 0, ops |-> 0]
NoFdCall ==
    [op |-> "none", d |-> 0, arg |-> <<>>, ret |-> 0, copied |-> <<>>,
     wrote |-> <<>>]

\* no descriptor has been opened
FdIdle ==
    /\ fds = [d \in Descriptors |-> NoDescriptor]
    /\ fdOut = NoFdCall
    /\ flushes = [d \in Descriptors |-> <<>>]

vars == <<vfsVars, singletonVars, pathVars, minixVars, raceVars, fdVars>>

\* the state as the record the operations work on
S == [mounts |-> mounts, root |-> root, index |-> index, indexed |-> indexed,
      fs |-> fs, panicked |-> panicked, calls |-> <<>>, listed |-> <<>>]

Ready == ~panicked /\ steps < MaxSteps

Commit(r, op, args) ==
    /\ mounts' = r.s.mounts
    /\ root' = r.s.root
    /\ index' = r.s.index
    /\ indexed' = r.s.indexed
    /\ fs' = r.s.fs
    /\ panicked' = r.s.panicked
    /\ last' = [op |-> op, args |-> args, ok |-> r.ok, err |-> r.err, v |-> r.v,
                calls |-> r.s.calls, listed |-> r.s.listed]
    /\ steps' = steps + 1
    /\ UNCHANGED <<singletonVars, pathVars, minixVars, raceVars, fdVars>>

\* the paths, names and indices the calls are made with
PathRoot == <<SEP>>
MountPaths == {PathRoot, <<SEP, "m">>, <<SEP, "n">>, <<SEP, "m", SEP, "y">>}
QueryPaths == {PathRoot, <<SEP, "m">>, <<SEP, "m", SEP, "x">>, <<SEP, "f">>,
               <<SEP, "n", SEP, "x">>}
PrefixPaths == {<<SEP, "m">>}
CreateNames == {<<"c">>}

\* every index of a mounted backend's inode table, and one of a mount id
\* that is not in the table
MountedIndices ==
    {i \in [mount_id : 0..(Len(mounts) - 1), inode : 1..(4 + MaxSteps)] :
        i.inode <= Len(fs[mounts[i.mount_id + 1]].inodes)}
AnyIndices == MountedIndices \cup {FsIndex(Len(mounts), 1)}

\* remove_dir_entry(dir, name)
RemoveArgs ==
    {<<FsIndex(0, 1), <<"m">>>>, <<FsIndex(0, 1), <<"f">>>>,
     <<FsIndex(0, 2), <<"x">>>>, <<FsIndex(0, 2), <<"f">>>>,
     <<FsIndex(1, 1), <<"x">>>>, <<FsIndex(0, 3), <<"x">>>>}

\* unlink_inode(inode, directory, name)
UnlinkArgs ==
    {<<FsIndex(0, 3), FsIndex(0, 1), <<"f">>>>,
     <<FsIndex(0, 3), FsIndex(0, 1), <<"g">>>>,
     <<FsIndex(0, 4), FsIndex(0, 2), <<"x">>>>,
     <<FsIndex(0, 2), FsIndex(0, 1), <<"m">>>>,
     <<FsIndex(0, 3), FsIndex(0, 4), <<"f">>>>,
     <<FsIndex(0, 2), FsIndex(0, 3), <<"m">>>>,
     <<FsIndex(1, 2), FsIndex(1, 1), <<"x">>>>}

\* remove_directory(inode, parent, name)
RemoveDirectoryArgs ==
    {<<FsIndex(0, 2), FsIndex(0, 1), <<"m">>>>,
     <<FsIndex(0, 5), FsIndex(0, 1), <<"c">>>>,
     <<FsIndex(0, 3), FsIndex(0, 1), <<"f">>>>,
     <<FsIndex(0, 2), FsIndex(0, 3), <<"m">>>>,
     <<FsIndex(0, 3), FsIndex(0, 4), <<"f">>>>}

Init ==
    /\ mounts = <<>>
    /\ root = {}
    /\ index = EmptyMap
    /\ indexed = EmptyMap
    /\ fs = [b \in Backends |-> [mount_id |-> {}, inodes |-> Image(b)]]
    /\ panicked = FALSE
    /\ last = [op |-> "new", args |-> <<>>, ok |-> TRUE, err |-> <<"">>, v |-> <<>>,
               calls |-> <<>>, listed |-> <<>>]
    /\ unlinkOnly = TRUE
    /\ steps = 0
    /\ SingletonRegistered
    /\ PathIdle
    /\ MinixIdle
    /\ RaceIdle
    /\ FdIdle

MountFs(path, b) ==
    /\ Ready
    /\ fs[b].mount_id = {}
    /\ Commit(mount_fs(S, path, b), "mount_fs", <<path, b>>)
    /\ unlinkOnly' = (unlinkOnly /\ mounts = <<>>)

Index ==
    /\ Ready
    /\ Commit(vfs_index(S), "index", <<>>)
    /\ UNCHANGED unlinkOnly

InvalidateIndex(path) ==
    /\ Ready
    /\ Commit(invalidate_index(S, path), "invalidate_index", <<path>>)
    /\ UNCHANGED unlinkOnly

PathToInode(path) ==
    /\ Ready
    /\ Commit(vfs_path_to_inode(S, path), "path_to_inode", <<path>>)
    /\ UNCHANGED unlinkOnly

InodeToPath(inode) ==
    /\ Ready
    /\ Commit(vfs_inode_to_path(S, inode), "inode_to_path", <<inode>>)
    /\ UNCHANGED unlinkOnly

\* the caller creates a name only where no entry has it
NameFree(dir, name) ==
    get_fs_mount(S, dir.mount_id) =>
      FirstNamed(Ino(S, MountOf(S, dir.mount_id), dir.inode).entries, name, 1) = 0

CreateFile(dir, name) ==
    /\ Ready
    /\ NameFree(dir, name)
    /\ Commit(vfs_create_file(S, dir, name), "create_file", <<dir, name>>)
    /\ unlinkOnly' = FALSE

CreateDirectory(dir, name) ==
    /\ Ready
    /\ NameFree(dir, name)
    /\ Commit(vfs_create_directory(S, dir, name), "create_directory", <<dir, name>>)
    /\ unlinkOnly' = FALSE

RemoveDirEntry(dir, name) ==
    /\ Ready
    /\ Commit(vfs_remove_dir_entry(S, dir, name), "remove_dir_entry", <<dir, name>>)
    /\ unlinkOnly' = FALSE

UnlinkInode(inode, directory, name) ==
    /\ Ready
    /\ Commit(unlink_inode(S, inode, directory, name), "unlink_inode",
              <<inode, directory, name>>)
    /\ UNCHANGED unlinkOnly

RemoveDirectory(inode, parent, name) ==
    /\ Ready
    /\ Commit(remove_directory(S, inode, parent, name), "remove_directory",
              <<inode, parent, name>>)
    /\ unlinkOnly' = FALSE

Next ==
    \/ \E path \in MountPaths, b \in Backends : MountFs(path, b)
    \/ Index
    \/ \E path \in PrefixPaths : InvalidateIndex(path)
    \/ \E path \in QueryPaths : PathToInode(path)
    \/ \E inode \in AnyIndices : InodeToPath(inode)
    \/ \E dir \in MountedIndices, name \in CreateNames : CreateFile(dir, name)
    \/ \E dir \in MountedIndices, name \in CreateNames : CreateDirectory(dir, name)
    \/ \E a \in RemoveArgs : RemoveDirEntry(a[1], a[2])
    \/ \E a \in UnlinkArgs : UnlinkInode(a[1], a[2], a[3])
    \/ \E a \in RemoveDirectoryArgs : RemoveDirectory(a[1], a[2], a[3])

Spec == Init /\ [][Next]_vars

(***************************************************************************)
(* What the properties speak of.  Operators with a state argument st are   *)
(* used on S (before a call) and on S' (after it).                         *)
(***************************************************************************)
IsMountedIn(st, i) == get_fs_mount(st, i.mount_id)
\* the inode record an index leads to
InoIn(st, i) == Ino(st, MountOf(st, i.mount_id), i.inode)
IsDirIn(st, i) == IsMountedIn(st, i) /\ HasDirBit(InoIn(st, i).mode)
IsFileIn(st, i) == IsMountedIn(st, i) /\ ~HasDirBit(InoIn(st, i).mode)

\* did the call recorded in l invoke the backend primitive fn
CalledIn(l, fn) == \E k \in 1..Len(l.calls) : l.calls[k].fn = fn
CalledBeforeIn(l, fn1, fn2) ==
    \E k1, k2 \in 1..Len(l.calls) :
        k1 < k2 /\ l.calls[k1].fn = fn1 /\ l.calls[k2].fn = fn2

\* the names a directory lists that are neither "." nor ".."
OwnNamesIn(st, i) ==
    {InoIn(st, i).entries[k].name : k \in 1..Len(InoIn(st, i).entries)}
        \ {NameDot, NameDotDot}

(***************************************************************************)
(* C1: unlink_inode of a file inside a directory: with a link count above  *)
(* 1 the count drops by one and neither remove_dir_entry nor remove_inode  *)
(* is invoked; with a link count of 1 the count reaches 0, remove_dir_entry*)
(* is invoked and, when the call returns Ok, the entry `name` and the      *)
(* inode are both gone.                                                    *)
(***************************************************************************)
C1_UnlinkByLinkCount ==
    [][last'.op = "unlink_inode" =>
        LET inode == last'.args[1]
            directory == last'.args[2]
            name == last'.args[3]
            before == InoIn(S, inode)
        IN (IsFileIn(S, inode) /\ IsDirIn(S, directory) /\ before.exists) =>
             /\ before.links > 1 =>
                  /\ last'.ok
                  /\ InoIn(S', inode) = [before EXCEPT !.links = @ - 1]
                  /\ InoIn(S', directory) = InoIn(S, directory)
                  /\ ~CalledIn(last', "remove_dir_entry")
                  /\ ~CalledIn(last', "remove_inode")
             /\ before.links = 1 =>
                  /\ CalledIn(last', "decrement_links")
                  /\ CalledIn(last', "remove_dir_entry")
                  /\ last'.ok =>
                       /\ CalledBeforeIn(last', "remove_dir_entry", "remove_inode")
                       /\ ~InoIn(S', inode).exists
                       /\ FirstNamed(InoIn(S, directory).entries, name, 1) > 0
                       /\ InoIn(S', directory).entries =
                            RemoveAt(InoIn(S, directory).entries,
                                     FirstNamed(InoIn(S, directory).entries, name, 1))
    ]_vars

\* an unlink of the last link has returned Ok and freed the inode
C1_Witness ==
    /\ last.op = "unlink_inode"
    /\ last.ok
    /\ CalledIn(last, "remove_inode")
    /\ ~InoIn(S, last.args[1]).exists

\* a call that failed without changing anything: no mutating primitive was
\* invoked, and backends, caches and mount table are as before
Untouched ==
    /\ ~CalledIn(last', "decrement_links")
    /\ ~CalledIn(last', "remove_dir_entry")
    /\ ~CalledIn(last', "remove_inode")
    /\ fs' = fs
    /\ index' = index
    /\ indexed' = indexed
    /\ mounts' = mounts
    /\ root' = root

\* every entry of an existing directory leads to an inode that exists
NoDanglingEntry ==
    \A b \in Backends : \A n \in DOMAIN fs[b].inodes :
        LET ino == fs[b].inodes[n]
        IN (ino.exists /\ HasDirBit(ino.mode)) =>
             \A k \in 1..Len(ino.entries) :
                 ~ino.entries[k].graft => Ino(S, b, ino.entries[k].inode).exists

\* the directory entries of backend b that lead to its inode n
EntriesTo(b, n) ==
    {dk \in (DOMAIN fs[b].inodes) \X (1..8) :
        LET d == fs[b].inodes[dk[1]]
        IN /\ d.exists
           /\ dk[2] <= Len(d.entries)
           /\ ~d.entries[dk[2]].graft
           /\ d.entries[dk[2]].inode = n}

\* every inode's link count is the number of entries that lead to it
LinkCountsMatch ==
    \A b \in Backends : \A n \in DOMAIN fs[b].inodes :
        fs[b].inodes[n].exists =>
            fs[b].inodes[n].links = Cardinality(EntriesTo(b, n))

(***************************************************************************)
(* C2: hard links are safe under unlink: from a state where every link     *)
(* count equals the number of entries of its inode, after any sequence of  *)
(* unlink_inode calls no existing entry leads to a removed inode.          *)
(***************************************************************************)
C2_HardLinksSafe == unlinkOnly => NoDanglingEntry

(***************************************************************************)
(* C3: a successful unlink_inode keeps every inode's link count equal to   *)
(* the number of directory entries that lead to the inode.                 *)
(***************************************************************************)
C3_LinkCountPreserved ==
    [][(last'.op = "unlink_inode" /\ last'.ok /\ LinkCountsMatch) => LinkCountsMatch'
    ]_vars

(***************************************************************************)
(* C4: unlink_inode fails with INodeIsDirectory when inode is a directory  *)
(* (whatever directory is) and with INodeIsNotADirectory when inode is a   *)
(* file and directory is no directory; both failures change nothing and    *)
(* invoke none of decrement_links, remove_dir_entry, remove_inode.         *)
(***************************************************************************)
C4_UnlinkErrors ==
    [][last'.op = "unlink_inode" =>
        LET inode == last'.args[1]
            directory == last'.args[2]
        IN /\ IsDirIn(S, inode) =>
                ~last'.ok /\ last'.err = INodeIsDirectory /\ Untouched
           /\ (IsFileIn(S, inode) /\ IsFileIn(S, directory)) =>
                ~last'.ok /\ last'.err = INodeIsNotADirectory /\ Untouched
    ]_vars

\* unlink_inode of a directory, with a file given as the directory
C4_Witness ==
    /\ last.op = "unlink_inode"
    /\ last.err = INodeIsDirectory
    /\ IsDirIn(S, last.args[1])
    /\ IsFileIn(S, last.args[2])

(***************************************************************************)
(* C5: remove_directory of a directory in a directory fails with           *)
(* DirectoryNotEmpty, removing nothing, exactly when the directory lists   *)
(* an entry other than "." and ".."; otherwise it invokes remove_dir_entry *)
(* for name in parent and then remove_inode, and when it returns Ok the    *)
(* entry and the inode are gone.                                           *)
(***************************************************************************)
C5_RemoveDirectoryEmptiness ==
    [][last'.op = "remove_directory" =>
        LET inode == last'.args[1]
            parent == last'.args[2]
            name == last'.args[3]
            at == FirstNamed(InoIn(S, parent).entries, name, 1)
        IN (IsDirIn(S, inode) /\ IsDirIn(S, parent)) =>
             /\ (last'.err = DirectoryNotEmpty) <=> (OwnNamesIn(S, inode) # {})
             /\ OwnNamesIn(S, inode) # {} =>
                  ~last'.ok /\ Untouched
             /\ OwnNamesIn(S, inode) = {} =>
                  /\ CalledIn(last', "remove_dir_entry")
                  /\ last'.ok =>
                       /\ CalledBeforeIn(last', "remove_dir_entry", "remove_inode")
                       /\ at > 0
                       /\ inode # parent =>
                            InoIn(S', parent).entries =
                                RemoveAt(InoIn(S, parent).entries, at)
                       /\ ~InoIn(S', inode).exists
    ]_vars

\* a directory holding only "." and ".." has been removed
C5_Witness ==
    /\ last.op = "remove_directory"
    /\ last.ok
    /\ ~InoIn(S, last.args[1]).exists
    /\ IsDirIn(S, last.args[2])

(***************************************************************************)
(* C6: remove_directory fails with INodeIsNotADirectory when inode is no   *)
(* directory, or inode is one and parent is not; it then lists no entries, *)
(* invokes neither remove_dir_entry nor remove_inode and changes nothing.  *)
(***************************************************************************)
C6_RemoveDirectoryErrors ==
    [][last'.op = "remove_directory" =>
        LET inode == last'.args[1]
            parent == last'.args[2]
        IN (IsFileIn(S, inode) \/ (IsDirIn(S, inode) /\ IsFileIn(S, parent))) =>
             /\ ~last'.ok
             /\ last'.err = INodeIsNotADirectory
             /\ ~CalledIn(last', "get_dir_entries")
             /\ Untouched
    ]_vars

\* remove_directory of a directory, with a file given as the parent
C6_Witness ==
    /\ last.op = "remove_directory"
    /\ last.err = INodeIsNotADirectory
    /\ IsDirIn(S, last.args[1])
    /\ IsFileIn(S, last.args[2])

\* the directory walk of path_to_inode, as made on a cache miss
FreshWalk(st, path) ==
    LET r == vfs_get_root_index(st)
    IN IF r.ok THEN walk(r.s, path, path_iter(path), 1, r.v) ELSE r

\* every cached path leads, by a walk from the root, to its cached index
Coherent ==
    \A path \in DOMAIN index :
        LET r == FreshWalk(S, path)
        IN r.ok /\ r.v = index[path]

(***************************************************************************)
(* C7: forward-cache coherence: in every reachable state every entry       *)
(* path -> index of the forward cache is what a fresh walk of the path     *)
(* from the root returns.                                                  *)
(***************************************************************************)
C7_ForwardCacheCoherent == Coherent

(***************************************************************************)
(* C8: after remove_dir_entry(dir, name) on the VFS returns Ok, dir has a  *)
(* cached path and the forward cache holds no key that starts with it      *)
(* (neither the bare path, nor the one with a trailing separator, nor the  *)
(* path of the removed name), so the next lookup of the removed name       *)
(* misses the cache and is answered by the walk.                           *)
(***************************************************************************)
C8_RemoveDirEntryInvalidates ==
    (last.op = "remove_dir_entry" /\ last.ok) =>
        LET dir == last.args[1]
            name == last.args[2]
        IN /\ dir \in DOMAIN indexed
           /\ \A key \in DOMAIN index : ~starts_with(key, indexed[dir])
           /\ indexed[dir] \notin DOMAIN index
           /\ (indexed[dir] \o <<SEP>>) \notin DOMAIN index
           /\ (indexed[dir] \o <<SEP>> \o name) \notin DOMAIN index

\* an entry was removed from a directory below the root while the cache
\* held, and still holds, other paths
C8_Witness ==
    /\ last.op = "remove_dir_entry"
    /\ last.ok
    /\ last.args[1] \in DOMAIN indexed
    /\ indexed[last.args[1]] # <<>>
    /\ DOMAIN index # {}

\* backend 2 is mounted on the entry called name of the root of backend 1,
\* which is the root mount
GraftedAt(name) ==
    /\ mounts = <<1, 2>>
    /\ root = {0}
    /\ LET entries == fs[1].inodes[1].entries
           k == FirstNamed(entries, name, 1)
       IN k > 0 /\ entries[k].graft /\ entries[k].mount = 1 /\ entries[k].inode = 1
    /\ FirstNamed(fs[2].inodes[1].entries, <<"x">>, 1) > 0

(***************************************************************************)
(* C9: with backend A mounted at "/" and backend B then mounted at "/mnt", *)
(* path_to_inode("/mnt") returns B's root index and path_to_inode("/mnt/x")*)
(* an index with B's mount id, whether the cache was filled before or      *)
(* after B was mounted.                                                    *)
(***************************************************************************)
C9_MountResolves ==
    \A name \in {<<"m">>, <<"n">>} :
        (last.op = "path_to_inode" /\ GraftedAt(name)) =>
            /\ last.args[1] = <<SEP>> \o name =>
                 last.ok /\ last.v = FsIndex(1, 1)
            /\ last.args[1] = <<SEP>> \o name \o <<SEP, "x">> =>
                 last.ok /\ last.v.mount_id = 1

\* two results of path_to_inode are the same index or the same error
SameAnswer(r1, r2) ==
    /\ r1.ok = r2.ok
    /\ r1.ok => r1.v = r2.v
    /\ ~r1.ok => r1.err = r2.err

\* the calls that change no directory
ReadOnlyOps == {"index", "invalidate_index", "path_to_inode", "inode_to_path"}

(***************************************************************************)
(* C10: path_to_inode of a path gives the same index, or the same error,   *)
(* before and after any call that changes no directory (an index rebuild,  *)
(* an invalidation, a lookup), whether answered by the cache or the walk.  *)
(***************************************************************************)
C10_SameAnswerTwice ==
    [][(last'.op \in ReadOnlyOps /\ ~panicked') =>
        \A path \in QueryPaths :
            SameAnswer(vfs_path_to_inode(S, path), vfs_path_to_inode(S', path))
    ]_vars

(***************************************************************************)
(* The walk of a path as the directory tables of the backends define it,   *)
(* without the VFS: the components of the path, and from the root index    *)
(* the first entry of each directory that bears the component's name.      *)
(***************************************************************************)
\* the position of the first separator of p, Len(p) + 1 when it has none
RECURSIVE FirstSep(_, _)
FirstSep(p, k) ==
    IF k > Len(p) \/ p[k] = SEP THEN k ELSE FirstSep(p, k + 1)

\* the non-empty pieces of p between separators
RECURSIVE Components(_)
Components(p) ==
    IF p = <<>> THEN <<>>
    ELSE IF Head(p) = SEP THEN Components(Tail(p))
    ELSE <<SubSeq(p, 1, FirstSep(p, 1) - 1)>>
            \o Components(SubSeq(p, FirstSep(p, 1), Len(p)))

\* the index a directory entry leads to
EntryIndex(dir, e) ==
    IF e.graft THEN FsIndex(e.mount, e.inode) ELSE FsIndex(dir.mount_id, e.inode)

\* "found" with the index reached, "missing" at the first component no
\* entry bears, "nodir" when a component is looked for in a non-directory
RECURSIVE RefWalk(_, _, _, _)
RefWalk(st, comps, k, idx) ==
    IF k > Len(comps) THEN [kind |-> "found", v |-> idx, at |-> k]
    ELSE IF ~IsDirIn(st, idx) THEN [kind |-> "nodir", v |-> idx, at |-> k]
    ELSE LET es == InoIn(st, idx).entries
             hits == {j \in 1..Len(es) : es[j].name = comps[k]}
         IN IF hits = {} THEN [kind |-> "missing", v |-> idx, at |-> k]
            ELSE LET j == CHOOSE h \in hits : \A g \in hits : h <= g
                 IN RefWalk(st, comps, k + 1, EntryIndex(idx, es[j]))

\* the root index: inode 1 of the root mount
RootIndexIn(st) == FsIndex(CHOOSE r \in st.root : TRUE, 1)

RECURSIVE ReachFrom(_, _)
ReachFrom(st, set) ==
    LET more == set \cup
            UNION {{EntryIndex(d, InoIn(st, d).entries[k]) :
                        k \in 1..Len(InoIn(st, d).entries)} :
                   d \in {i \in set : IsDirIn(st, i)}}
    IN IF more = set THEN set ELSE ReachFrom(st, more)

\* an index is reachable from the root: a chain of directory entries leads
\* from the root index to it, and its inode exists
ReachableIn(st, i) ==
    /\ st.root # {}
    /\ i \in ReachFrom(st, {RootIndexIn(st)})
    /\ IsMountedIn(st, i)
    /\ InoIn(st, i).exists

(***************************************************************************)
(* C12: inode_to_path(i) returns the path of the reverse cache when the    *)
(* cache holds i, without calling a backend, and otherwise the path the    *)
(* rebuilt index gives i; whenever i is reachable from the root and the    *)
(* call returns a path p, path_to_inode(p) returns i.                      *)
(***************************************************************************)
C12_InodeToPathRoundTrip ==
    [][last'.op = "inode_to_path" =>
        LET i == last'.args[1]
        IN /\ i \in DOMAIN indexed =>
                last'.ok /\ last'.v = indexed[i] /\ last'.calls = <<>>
           /\ (i \notin DOMAIN indexed /\ last'.ok) =>
                /\ i \in DOMAIN vfs_index(S).s.indexed
                /\ last'.v = vfs_index(S).s.indexed[i]
           /\ (last'.ok /\ ReachableIn(S, i)) =>
                LET r == vfs_path_to_inode(S', last'.v)
                IN r.ok /\ r.v = i
    ]_vars

\* the indices of the inodes that exist in the mounted backends
ExistingIndicesIn(st) ==
    {i \in [mount_id : 0..(Len(st.mounts) - 1), inode : 1..(4 + MaxSteps)] :
        InoIn(st, i).exists}

\* a grafted mount: some directory entry leads into another mount
HasGraft ==
    \E b \in Backends : \E n \in DOMAIN fs[b].inodes :
        \E k \in 1..Len(fs[b].inodes[n].entries) : fs[b].inodes[n].entries[k].graft

(***************************************************************************)
(* C13: index() ends on every directory graph, cycles through "." and      *)
(* "..", hard links and grafted mounts included: in every reachable state  *)
(* the call returns, having listed no directory twice and only inodes it   *)
(* entered in the reverse cache; with a root mount it returns Ok with      *)
(* every index reachable from the root in the reverse cache.               *)
(***************************************************************************)
C13_IndexTerminates ==
    LET r == vfs_index(S)
    IN /\ \A j, k \in 1..Len(r.s.listed) : j # k => r.s.listed[j] # r.s.listed[k]
       /\ \A k \in 1..Len(r.s.listed) : r.s.listed[k] \in DOMAIN r.s.indexed
       /\ Len(r.s.listed) = Cardinality(DOMAIN r.s.indexed)
       /\ root = {} => ~r.ok /\ r.err = MissingRootMount
       /\ root # {} =>
            /\ r.ok
            /\ \A i \in ExistingIndicesIn(S) : ReachableIn(S, i) => i \in DOMAIN r.s.indexed

\* an index rebuild went through a grafted mount and a hard-linked file
C13_Witness ==
    /\ last.op = "index"
    /\ last.ok
    /\ HasGraft
    /\ Len(mounts) = 2
    /\ FsIndex(0, 3) \in DOMAIN indexed
    /\ FsIndex(1, 2) \in DOMAIN indexed
    /\ Len(last.listed) >= 5

ImageC ==
    <<DirInode(3, <<LocalEntry(NameDot, 1), LocalEntry(NameDotDot, 1),
                    LocalEntry(<<"a">>, 2), LocalEntry(<<"a", "b">>, 4),
                    LocalEntry(<<"b">>, 5)>>),
      DirInode(2, <<LocalEntry(NameDot, 2), LocalEntry(NameDotDot, 1),
                    LocalEntry(<<"b">>, 3)>>),
      FileInode(1),
      FileInode(1),
      FileInode(1)>>

InvalidatedPrefixes ==
    {<<>>, <<SEP>>, <<SEP, "a">>, <<SEP, "a", SEP>>, <<SEP, "a", "b">>,
     <<SEP, "a", SEP, "b">>, <<SEP, "b">>, <<SEP, "c">>}

InitPrefix ==
    /\ mounts = <<>>
    /\ root = {}
    /\ index = EmptyMap
    /\ indexed = EmptyMap
    /\ fs = [b \in Backends |->
                [mount_id |-> {}, inodes |-> IF b = 1 THEN ImageC ELSE ImageB]]
    /\ panicked = FALSE
    /\ last = [op |-> "new", args |-> <<>>, ok |-> TRUE, err |-> <<"">>, v |-> <<>>,
               calls |-> <<>>, listed |-> <<>>]
    /\ unlinkOnly = TRUE
    /\ steps = 0
    /\ SingletonRegistered
    /\ PathIdle
    /\ MinixIdle
    /\ RaceIdle
    /\ FdIdle

NextPrefix ==
    \/ \E b \in Backends : MountFs(PathRoot, b)
    \/ Index
    \/ \E path \in InvalidatedPrefixes : InvalidateIndex(path)

SpecPrefix == InitPrefix /\ [][NextPrefix]_vars

\* key is prefix followed by some string, the empty one included
HasStringPrefix(key, prefix) ==
    \E n \in 0..Len(key) : SubSeq(key, 1, n) = prefix

(***************************************************************************)
(* C15: invalidate_index(prefix) always returns Ok; the forward cache then *)
(* holds exactly the keys it held that do not start with prefix as a       *)
(* string ("/ab" starts with "/a"), each with the index it had; the        *)
(* reverse cache, the mount table, the root and the backends are as        *)
(* before.                                                                 *)
(***************************************************************************)
C15_InvalidateExactlyPrefix ==
    [][last'.op = "invalidate_index" =>
        LET prefix == last'.args[1]
        IN /\ last'.ok
           /\ DOMAIN index' = {key \in DOMAIN index : ~HasStringPrefix(key, prefix)}
           /\ \A key \in DOMAIN index' : index'[key] = index[key]
           /\ indexed' = indexed
           /\ mounts' = mounts
           /\ root' = root
           /\ fs' = fs
           /\ last'.calls = <<>>
    ]_vars

\* invalidate_index("/a") has evicted "/ab" with the keys of directory a
\* and kept "/b"; the reverse cache still holds the inode of "/ab"
C15_Witness ==
    /\ last.op = "invalidate_index"
    /\ last.args[1] = <<SEP, "a">>
    /\ DOMAIN index = {<<SEP>>, <<SEP, "b">>}
    /\ FsIndex(0, 4) \in DOMAIN indexed
    /\ indexed[FsIndex(0, 4)] = <<SEP, "a", "b">>

\* the backend in slot i carries the mount id i, and a backend in no slot
\* carries none
SlotIdsIn(st) ==
    /\ \A k \in 1..Len(st.mounts) : st.fs[st.mounts[k]].mount_id = {k - 1}
    /\ \A j, k \in 1..Len(st.mounts) : j # k => st.mounts[j] # st.mounts[k]
    /\ \A b \in Backends :
         (\A k \in 1..Len(st.mounts) : st.mounts[k] # b) => st.fs[b].mount_id = {}

(***************************************************************************)
(* C16: mount_fs gives the backend the mount id that is the length of the  *)
(* mount table at the call and stores it in the slot of that number, so    *)
(* that in every state the backend in slot i carries the mount id i and no *)
(* two backends carry the same id; mount_fs at "/" returns Ok and makes    *)
(* the new mount the root.                                                 *)
(***************************************************************************)
C16_MountIds ==
    [][last'.op = "mount_fs" =>
        LET path == last'.args[1]
            b == last'.args[2]
        IN /\ mounts' = Append(mounts, b)
           /\ fs'[b].mount_id = {Len(mounts)}
           /\ SlotIdsIn(S')
           /\ \A b1, b2 \in Backends :
                (b1 # b2 /\ fs'[b1].mount_id # {}) =>
                    fs'[b1].mount_id # fs'[b2].mount_id
           /\ path = PathRoot => last'.ok /\ root' = {Len(mounts)}
    ]_vars

\* a second backend has been mounted into slot 1
C16_Witness ==
    /\ last.op = "mount_fs"
    /\ Len(mounts) = 2
    /\ fs[mounts[2]].mount_id = {1}
    /\ fs[mounts[1]].mount_id = {0}

\* the last component of a path, and the path up to it
LeafOf(path) == Components(path)[Len(Components(path))]
ParentOf(path) == SubSeq(path, 1, Len(path) - Len(LeafOf(path)))

(***************************************************************************)
(* C17: mount_fs of a path other than "/" returns MissingRootMount when no *)
(* root mount exists, resolving nothing and grafting nothing; with a root  *)
(* mount it resolves the parent of the path with path_to_inode, fails as   *)
(* that lookup fails, and otherwise calls mount_fs_at of the backend that  *)
(* owns the parent index, after which (on Ok) the parent's entry of the    *)
(* leaf name leads to the root index of the new mount.                     *)
(***************************************************************************)
C17_MountBelowRoot ==
    [][(last'.op = "mount_fs" /\ last'.args[1] # PathRoot) =>
        LET path == last'.args[1]
            pr == vfs_path_to_inode(S, ParentOf(path))
            n == Len(last'.calls)
        IN /\ root = {} =>
                /\ ~last'.ok /\ last'.err = MissingRootMount
                /\ ~CalledIn(last', "mount_fs_at")
                /\ ~CalledIn(last', "get_dir_entries")
                /\ \A b \in Backends : fs'[b].inodes = fs[b].inodes
           /\ (root # {} /\ ~pr.ok) =>
                /\ ~last'.ok /\ last'.err = pr.err
                /\ ~CalledIn(last', "mount_fs_at")
           /\ (root # {} /\ pr.ok) =>
                /\ n > 0
                /\ last'.calls[n] = [fn |-> "mount_fs_at", b |-> mounts[pr.v.mount_id + 1]]
                /\ \A k \in 1..(n - 1) : last'.calls[k].fn # "mount_fs_at"
                /\ last'.ok =>
                     LET es == InoIn(S', pr.v).entries
                         k == FirstNamed(es, LeafOf(path), 1)
                     IN /\ k > 0
                        /\ es[k].graft
                        /\ EntryIndex(pr.v, es[k]) = FsIndex(Len(mounts), 1)
    ]_vars

\* a backend has been mounted at "/m/y": directory m of the root mount now
\* holds the entry y, which leads to the new mount's root
C17_Witness ==
    /\ last.op = "mount_fs"
    /\ last.ok
    /\ last.args[1] = <<SEP, "m", SEP, "y">>
    /\ Len(mounts) = 2
    /\ LET es == InoIn(S, FsIndex(0, 2)).entries
           k == FirstNamed(es, <<"y">>, 1)
       IN k > 0 /\ es[k].graft /\ es[k].mount = 1

(***************************************************************************)
(* C18: the VFS moves from no mount to a root mount to more mounts: over   *)
(* every call the mount table keeps the mounts it has, and whenever the    *)
(* table is not empty a root mount is designated.                          *)
(***************************************************************************)
C18_RootBeforeMounts ==
    [][/\ Len(mounts') >= Len(mounts)
       /\ SubSeq(mounts', 1, Len(mounts)) = mounts
       /\ root # {} => root' # {}
       /\ mounts' # <<>> => root' # {}
    ]_vars

(***************************************************************************)
(* A third machine for the dispatch of the trait methods of the VFS: each  *)
(* method is called on indices of slot 0, of slot 1 and of slot 2, which   *)
(* hold a backend or not as the mounts made so far decide.                 *)
(***************************************************************************)
\* how many calls a behaviour of this machine makes
MaxDispatchSteps == 3

DispatchReady == ~panicked /\ steps < MaxDispatchSteps

DispatchIndices == {FsIndex(0, 1), FsIndex(0, 3), FsIndex(1, 1), FsIndex(2, 1)}
DispatchMountPaths == {PathRoot, <<SEP, "m">>}
WrittenBytes == {<<33>>}
OpenModes == {0}
IoctlCommands == {"cmd"}
GraftNames == {<<"n">>}

GetDirEntries(inode) ==
    /\ DispatchReady
    /\ Commit(vfs_get_dir_entries(S, inode), "get_dir_entries", <<inode>>)
    /\ UNCHANGED unlinkOnly

GetStat(inode) ==
    /\ DispatchReady
    /\ Commit(vfs_get_stat(S, inode), "get_stat", <<inode>>)
    /\ UNCHANGED unlinkOnly

RemoveInode(inode) ==
    /\ DispatchReady
    /\ Commit(vfs_remove_inode(S, inode), "remove_inode", <<inode>>)
    /\ unlinkOnly' = FALSE

IncrementLinks(inode) ==
    /\ DispatchReady
    /\ Commit(vfs_increment_links(S, inode), "increment_links", <<inode>>)
    /\ unlinkOnly' = FALSE

DecrementLinks(inode) ==
    /\ DispatchReady
    /\ Commit(vfs_decrement_links(S, inode), "decrement_links", <<inode>>)
    /\ unlinkOnly' = FALSE

ReadInode(inode) ==
    /\ DispatchReady
    /\ Commit(vfs_read_inode(S, inode), "read_inode", <<inode>>)
    /\ UNCHANGED unlinkOnly

WriteInode(inode, data) ==
    /\ DispatchReady
    /\ Commit(vfs_write_inode(S, inode, data), "write_inode", <<inode, data>>)
    /\ UNCHANGED unlinkOnly

MountFsAt(inode, child_root, name) ==
    /\ DispatchReady
    /\ Commit(vfs_mount_fs_at(S, inode, child_root, name), "mount_fs_at",
              <<inode, child_root, name>>)
    /\ unlinkOnly' = FALSE

OpenFd(inode, mode) ==
    /\ DispatchReady
    /\ Commit(vfs_open_fd(S, inode, mode), "open_fd", <<inode, mode>>)
    /\ UNCHANGED unlinkOnly

ExecIoctl(inode, cmd) ==
    /\ DispatchReady
    /\ Commit(vfs_exec_ioctl(S, inode, cmd), "exec_ioctl", <<inode, cmd>>)
    /\ UNCHANGED unlinkOnly

NextDispatch ==
    \/ \E path \in DispatchMountPaths, b \in Backends : DispatchReady /\ MountFs(path, b)
    \/ \E inode \in DispatchIndices : GetDirEntries(inode)
    \/ \E inode \in DispatchIndices : GetStat(inode)
    \/ \E inode \in DispatchIndices, name \in CreateNames :
          DispatchReady /\ CreateFile(inode, name)
    \/ \E inode \in DispatchIndices, name \in CreateNames :
          DispatchReady /\ CreateDirectory(inode, name)
    \/ \E inode \in DispatchIndices : RemoveInode(inode)
    \/ \E inode \in DispatchIndices, name \in {<<"x">>} :
          DispatchReady /\ RemoveDirEntry(inode, name)
    \/ \E inode \in DispatchIndices : IncrementLinks(inode)
    \/ \E inode \in DispatchIndices : DecrementLinks(inode)
    \/ \E inode \in DispatchIndices : ReadInode(inode)
    \/ \E inode \in DispatchIndices, data \in WrittenBytes : WriteInode(inode, data)
    \/ \E inode \in DispatchIndices, name \in GraftNames :
          MountFsAt(inode, FsIndex(1, 1), name)
    \/ \E inode \in DispatchIndices, mode \in OpenModes : OpenFd(inode, mode)
    \/ \E inode \in DispatchIndices, cmd \in IoctlCommands : ExecIoctl(inode, cmd)

SpecDispatch == Init /\ [][NextDispatch]_vars

\* the trait methods the VFS dispatches on the mount id of an index
DispatchedOps ==
    {"get_dir_entries", "get_stat", "create_file", "create_directory",
     "remove_inode", "remove_dir_entry", "increment_links", "decrement_links",
     "read_inode", "write_inode", "mount_fs_at", "open_fd", "exec_ioctl"}

\* the calls of the primitive fn that the call recorded in l made
CallsOf(l, fn) == {k \in 1..Len(l.calls) : l.calls[k].fn = fn}

(***************************************************************************)
(* C19: a dispatched trait method of the VFS, called with an index whose   *)
(* mount id has a backend, calls that method once, first, on the backend   *)
(* of that slot, calls it on no other backend and changes no other         *)
(* backend (remove_dir_entry alone goes on to look up the directory's path *)
(* and may list directories for it; every other method makes no further    *)
(* call); called with a mount id that has no backend it returns            *)
(* UnableToFindDiskMount(mount id), calls no backend and changes nothing.  *)
(***************************************************************************)
C19_Dispatch ==
    [][last'.op \in DispatchedOps =>
        LET idx == last'.args[1]
        IN /\ IsMountedIn(S, idx) =>
                /\ Len(last'.calls) >= 1
                /\ last'.calls[1] = [fn |-> last'.op, b |-> mounts[idx.mount_id + 1]]
                /\ CallsOf(last', last'.op) = {1}
                /\ last'.op # "remove_dir_entry" => Len(last'.calls) = 1
                /\ \A k \in 2..Len(last'.calls) :
                     last'.calls[k].fn \in {"get_root_index", "get_dir_entries"}
                /\ \A b \in Backends : b # mounts[idx.mount_id + 1] => fs'[b] = fs[b]
                /\ ~(~last'.ok /\ last'.err = UnableToFindDiskMount(idx.mount_id))
           /\ ~IsMountedIn(S, idx) =>
                /\ ~last'.ok
                /\ last'.err = UnableToFindDiskMount(idx.mount_id)
                /\ last'.calls = <<>>
                /\ fs' = fs /\ index' = index /\ indexed' = indexed
                /\ mounts' = mounts /\ root' = root
    ]_vars

\* a method was forwarded to the backend of slot 1, the backend of slot 0
\* being another one
C19_Witness ==
    /\ last.op \in DispatchedOps
    /\ last.ok
    /\ Len(mounts) = 2
    /\ last.args[1].mount_id = 1
    /\ last.calls = <<[fn |-> last.op, b |-> mounts[2]]>>

(***************************************************************************)
(* C20: no call aborts the kernel: whatever path or index a call is given  *)
(* (a missing file, a node of the wrong type, a directory that is not      *)
(* empty, an index of a mount id without a backend or of an inode that no  *)
(* path from the root leads to), it returns Ok or a FilesystemError.       *)
(***************************************************************************)
C20_RecoverableNeverAborts ==
    /\ ~panicked
    /\ ~last.ok => last.err[1] \in
         {"UnableToFindDiskMount", "FileNotFound", "INodeIsDirectory",
          "INodeIsNotADirectory", "DirectoryNotEmpty", "MissingRootMount",
          "FilesystemNotMounted"}

(***************************************************************************)
(* The creation of the VFS singleton by concurrent execution contexts.     *)
(* The atomic steps of FilesystemInterface::new are the load of            *)
(* VFS_INTERFACE (in get_vfs_reference) and the store of the leaked        *)
(* instance; a panic shuts the machine down.                               *)
(***************************************************************************)
InitSingleton ==
    /\ mounts = <<>>
    /\ root = {}
    /\ index = EmptyMap
    /\ indexed = EmptyMap
    /\ fs = [b \in Backends |-> [mount_id |-> {}, inodes |-> Image(b)]]
    /\ panicked = FALSE
    /\ last = [op |-> "boot", args |-> <<>>, ok |-> TRUE, err |-> <<"">>, v |-> <<>>,
               calls |-> <<>>, listed |-> <<>>]
    /\ unlinkOnly = TRUE
    /\ steps = 0
    /\ vfsInterface = 0
    /\ newPc = [c \in Contexts |-> "idle"]
    /\ newCalls = [c \in Contexts |-> 0]
    /\ leaked = 0
    /\ lastRef = [c \in Contexts |-> 0]
    /\ PathIdle
    /\ MinixIdle
    /\ RaceIdle
    /\ FdIdle

\* get_vfs_reference: the load of VFS_INTERFACE
GetVfsReference(c) ==
    /\ ~panicked
    /\ newPc[c] = "idle"
    /\ lastRef' = [lastRef EXCEPT ![c] = vfsInterface]
    /\ UNCHANGED <<vfsVars, pathVars, minixVars, raceVars, fdVars, vfsInterface, newPc,
                   newCalls, leaked>>

\* FilesystemInterface::new up to its test of get_vfs_reference()
NewLoad(c) ==
    /\ ~panicked
    /\ newPc[c] = "idle"
    /\ newCalls[c] < MaxNewCalls
    /\ newCalls' = [newCalls EXCEPT ![c] = @ + 1]
    /\ IF vfsInterface # 0
       THEN /\ panicked' = TRUE
            /\ newPc' = [newPc EXCEPT ![c] = "panicked"]
       ELSE /\ panicked' = FALSE
            /\ newPc' = [newPc EXCEPT ![c] = "create"]
    /\ UNCHANGED <<mounts, root, index, indexed, fs, last, unlinkOnly, steps,
                   pathVars, minixVars, raceVars, fdVars, vfsInterface, leaked, lastRef>>

\* FilesystemInterface::new from Box::new to the store and the return
NewStore(c) ==
    /\ ~panicked
    /\ newPc[c] = "create"
    /\ leaked' = leaked + 1
    /\ vfsInterface' = leaked + 1
    /\ lastRef' = [lastRef EXCEPT ![c] = leaked + 1]
    /\ newPc' = [newPc EXCEPT ![c] = "idle"]
    /\ UNCHANGED <<vfsVars, pathVars, minixVars, raceVars, fdVars, newCalls>>

NextSingleton ==
    \/ \E c \in Contexts : GetVfsReference(c)
    \/ \E c \in Contexts : NewLoad(c)
    \/ \E c \in Contexts : NewStore(c)

SpecSingleton == InitSingleton /\ [][NextSingleton]_vars

(***************************************************************************)
(* C21: the VFS singleton is created once: VFS_INTERFACE is null until a   *)
(* call of new has stored an instance, at most one call of new creates and *)
(* registers an instance whatever the interleaving of the contexts, and    *)
(* every reference a context has obtained is that one instance.            *)
(***************************************************************************)
C21_SingletonOnce ==
    /\ leaked = 0 => vfsInterface = 0
    /\ leaked <= 1
    /\ \A c \in Contexts : lastRef[c] \in {0, 1}

(***************************************************************************)
(* The machine of the Path value: a path drawn from the strings over a     *)
(* small alphabet, and the calls of split_last, iter, next, canonicalize   *)
(* and canonicalized on it.                                                *)
(***************************************************************************)
\* the longest path drawn
MaxPathLen == 4

PathChars == {SEP, "a", "b"}

RECURSIVE StringsUpTo(_)
StringsUpTo(n) ==
    IF n = 0 THEN {<<>>}
    ELSE StringsUpTo(n - 1) \cup
         {Append(s, c) : s \in {u \in StringsUpTo(n - 1) : Len(u) = n - 1},
                         c \in PathChars}

PathABC == <<SEP, "a", SEP, "b", SEP, "c">>
PathInputs == StringsUpTo(MaxPathLen) \cup {PathABC}
CwdInputs == {<<>>, <<SEP>>, <<SEP, "a">>, <<SEP, "a", SEP>>, <<"a">>}

InitPath ==
    /\ mounts = <<>>
    /\ root = {}
    /\ index = EmptyMap
    /\ indexed = EmptyMap
    /\ fs = [b \in Backends |-> [mount_id |-> {}, inodes |-> Image(b)]]
    /\ panicked = FALSE
    /\ last = [op |-> "new", args |-> <<>>, ok |-> TRUE, err |-> <<"">>, v |-> <<>>,
               calls |-> <<>>, listed |-> <<>>]
    /\ unlinkOnly = TRUE
    /\ steps = 0
    /\ SingletonRegistered
    /\ ownedPath \in PathInputs
    /\ iter = [live |-> FALSE, iter_index |-> {}, yielded |-> <<>>]
    /\ pathOut = [op |-> "none", arg |-> <<>>, v |-> <<>>]
    /\ MinixIdle
    /\ RaceIdle
    /\ FdIdle

\* OwnedPath::split_last
SplitLast ==
    /\ pathOut' = [op |-> "split_last", arg |-> <<>>, v |-> split_last(ownedPath)]
    /\ UNCHANGED <<vfsVars, singletonVars, minixVars, raceVars, fdVars, ownedPath, iter>>

\* OwnedPath::iter: a new iterator, its iter_index None
Iter ==
    /\ iter' = [live |-> TRUE, iter_index |-> {}, yielded |-> <<>>]
    /\ pathOut' = [op |-> "iter", arg |-> <<>>, v |-> <<>>]
    /\ UNCHANGED <<vfsVars, singletonVars, minixVars, raceVars, fdVars, ownedPath>>

\* PathIterator::next
IterNext ==
    /\ iter.live
    /\ LET start == IF iter.iter_index = {} THEN 0
                    ELSE CHOOSE i \in iter.iter_index : TRUE
           n == iter_next(ownedPath, start)
       IN /\ iter' = [live |-> TRUE, iter_index |-> {n.idx},
                      yielded |-> IF n.some THEN Append(iter.yielded, n.item)
                                  ELSE iter.yielded]
          /\ pathOut' = [op |-> "next", arg |-> <<>>,
                         v |-> [some |-> n.some, item |-> n.item]]
    /\ UNCHANGED <<vfsVars, singletonVars, minixVars, raceVars, fdVars, ownedPath>>

\* OwnedPath::canonicalize: the receiver is rewritten, which ends the
\* borrow of an iterator
Canonicalize(cwd) ==
    /\ Len(ownedPath) <= MaxPathLen
    /\ ownedPath' = canonicalize(ownedPath, cwd).self
    /\ iter' = [live |-> FALSE, iter_index |-> {}, yielded |-> <<>>]
    /\ pathOut' = [op |-> "canonicalize", arg |-> cwd, v |-> <<>>]
    /\ UNCHANGED <<vfsVars, singletonVars, minixVars, raceVars, fdVars>>

\* OwnedPath::canonicalized
Canonicalized(cwd) ==
    /\ ownedPath' = canonicalized(ownedPath, cwd).self
    /\ pathOut' = [op |-> "canonicalized", arg |-> cwd,
                   v |-> canonicalized(ownedPath, cwd).out]
    /\ UNCHANGED <<vfsVars, singletonVars, minixVars, raceVars, fdVars, iter>>

NextPath ==
    \/ SplitLast
    \/ Iter
    \/ IterNext
    \/ \E cwd \in CwdInputs : Canonicalize(cwd)
    \/ \E cwd \in CwdInputs : Canonicalized(cwd)

SpecPath == InitPath /\ [][NextPath]_vars

\* a path without its one trailing separator
Untrailed(p) == IF ends_with_sep(p) THEN SubSeq(p, 1, Len(p) - 1) ELSE p

(***************************************************************************)
(* C22: split_last of a path other than "" and "/" returns (parent, leaf)  *)
(* where leaf is the last component of the path and holds no separator,    *)
(* and parent is the text before the separator that precedes leaf (parent, *)
(* that separator and leaf make up the path, a trailing separator aside);  *)
(* split_last("/a/b/c") is ("/a/b", "c").                                  *)
(***************************************************************************)
C22_SplitLastParentLeaf ==
    (pathOut.op = "split_last" /\ ownedPath \notin {<<>>, <<SEP>>}) =>
        LET parent == pathOut.v.parent
            leaf == pathOut.v.leaf
        IN /\ \A k \in 1..Len(leaf) : leaf[k] # SEP
           /\ Components(ownedPath) # <<>> => leaf = LeafOf(ownedPath)
           /\ \/ parent \o <<SEP>> \o leaf = Untrailed(ownedPath)
              \/ parent = <<>> /\ leaf = Untrailed(ownedPath)
           /\ ownedPath = PathABC => parent = <<SEP, "a", SEP, "b">> /\ leaf = <<"c">>

(***************************************************************************)
(* C23: split_last on the empty path and on the root path "/" returns      *)
(* ("", "").                                                               *)
(***************************************************************************)
C23_SplitLastEmptyRoot ==
    (pathOut.op = "split_last" /\ ownedPath \in {<<>>, <<SEP>>}) =>
        pathOut.v = [parent |-> <<>>, leaf |-> <<>>]

C23_Witness ==
    /\ pathOut.op = "split_last"
    /\ ownedPath = <<SEP>>
    /\ pathOut.v = [parent |-> <<>>, leaf |-> <<>>]

\* the first n items of a sequence
Prefix(q, n) == SubSeq(q, 1, n)

(***************************************************************************)
(* C24: iterating a path yields exactly its '/'-delimited components from  *)
(* left to right: the items yielded so far are the first components of the *)
(* path, each non-empty and without a separator, whatever leading,         *)
(* trailing or consecutive separators the path has; once next has returned *)
(* None every component has been yielded, and a new iter() starts again    *)
(* with nothing yielded.                                                   *)
(***************************************************************************)
C24_IterComponents ==
    /\ iter.live =>
          /\ \A k \in 1..Len(iter.yielded) :
                /\ iter.yielded[k] # <<>>
                /\ \A j \in 1..Len(iter.yielded[k]) : iter.yielded[k][j] # SEP
          /\ Len(iter.yielded) <= Len(Components(ownedPath))
          /\ iter.yielded = Prefix(Components(ownedPath), Len(iter.yielded))
          /\ (pathOut.op = "next" /\ ~pathOut.v.some) =>
                iter.yielded = Components(ownedPath)
    /\ pathOut.op = "iter" => iter.yielded = <<>> /\ iter.iter_index = {}

(***************************************************************************)
(* C25: canonicalize(cwd) leaves a path that starts with '/' unchanged;    *)
(* otherwise the path becomes cwd, then one separator unless cwd already   *)
(* ends with '/', then the original path; canonicalized(cwd) returns that  *)
(* same value and leaves the receiver as it was.                           *)
(***************************************************************************)
C25_Canonicalize ==
    [][ /\ pathOut'.op = "canonicalize" =>
            LET cwd == pathOut'.arg
            IN /\ (ownedPath # <<>> /\ Head(ownedPath) = SEP) => ownedPath' = ownedPath
               /\ (ownedPath = <<>> \/ Head(ownedPath) # SEP) =>
                     /\ cwd # <<>> /\ cwd[Len(cwd)] = SEP =>
                           ownedPath' = cwd \o ownedPath
                     /\ (cwd = <<>> \/ cwd[Len(cwd)] # SEP) =>
                           ownedPath' = cwd \o <<SEP>> \o ownedPath
        /\ pathOut'.op = "canonicalized" =>
            /\ ownedPath' = ownedPath
            /\ pathOut'.v = canonicalize(ownedPath, pathOut'.arg).self
      ]_vars

C25_Witness ==
    /\ pathOut.op = "canonicalize"
    /\ pathOut.arg = <<SEP, "a">>
    /\ ownedPath = <<SEP, "a", SEP, "a", "b">>

(***************************************************************************)
(* The machine of the Minix3 driver: a device holding one of the images,   *)
(* a driver made by new, and the calls of init, set_mount_id, read_inode   *)
(* and get_dir_entries on it in any order.  The VFS the driver is handed   *)
(* holds no mount.                                                         *)
(***************************************************************************)
MinixMountIds == {0, 1}
\* the variables of the VFS but for the panic flag
vfsQuiet == <<mounts, root, index, indexed, fs, last, unlinkOnly, steps>>
MinixIndices == {FsIndex(m, n) : m \in MinixMountIds, n \in 0..MaxInodeNumber}

InitMinix ==
    /\ mounts = <<>>
    /\ root = {}
    /\ index = EmptyMap
    /\ indexed = EmptyMap
    /\ fs = [b \in Backends |-> [mount_id |-> {}, inodes |-> Image(b)]]
    /\ panicked = FALSE
    /\ last = [op |-> "new", args |-> <<>>, ok |-> TRUE, err |-> <<"">>, v |-> <<>>,
               calls |-> <<>>, listed |-> <<>>]
    /\ unlinkOnly = TRUE
    /\ steps = 0
    /\ SingletonRegistered
    /\ PathIdle
    /\ disk \in DiskInputs
    /\ minix = MinixNew
    /\ mxOut = MinixNoCall
    /\ initOk = FALSE
    /\ RaceIdle
    /\ FdIdle

\* Filesystem::init
MinixInit ==
    /\ ~panicked
    /\ LET r == minix_init(minix, disk)
       IN /\ minix' = r.m
          /\ mxOut' = [op |-> "init", arg |-> <<>>,
                       out |-> MinixResult(r.ok, r.err, <<>>,
                                           MinixInode(0, 0, NoZones), <<>>, <<>>)]
          /\ initOk' = (initOk \/ r.ok)
    /\ UNCHANGED <<vfsVars, singletonVars, pathVars, raceVars, fdVars, disk>>

\* Filesystem::set_mount_id
MinixSetMountId(mount_id) ==
    /\ ~panicked
    /\ minix' = minix_set_mount_id(minix, mount_id)
    /\ mxOut' = [op |-> "set_mount_id", arg |-> mount_id, out |-> MinixNoCall.out]
    /\ UNCHANGED <<vfsVars, singletonVars, pathVars, raceVars, fdVars, disk, initOk>>

\* Filesystem::read_inode
MinixReadInode(inode) ==
    /\ ~panicked
    /\ \E checks \in BOOLEAN :
          mxOut' = [op |-> "read_inode", arg |-> inode,
                    out |-> minix_read_inode(minix, disk, S, inode, checks)]
    /\ panicked' = (mxOut'.out.err = <<"panic">>)
    /\ UNCHANGED <<vfsQuiet, singletonVars, pathVars, raceVars, fdVars, disk, minix, initOk>>

\* Filesystem::get_dir_entries
MinixGetDirEntries(inode) ==
    /\ ~panicked
    /\ \E checks \in BOOLEAN :
          mxOut' = [op |-> "get_dir_entries", arg |-> inode,
                    out |-> minix_get_dir_entries(minix, disk, S, inode, checks)]
    /\ panicked' = (mxOut'.out.err = <<"panic">>)
    /\ UNCHANGED <<vfsQuiet, singletonVars, pathVars, raceVars, fdVars, disk, minix, initOk>>

NextMinix ==
    \/ MinixInit
    \/ \E mount_id \in MinixMountIds : MinixSetMountId(mount_id)
    \/ \E inode \in MinixIndices : MinixReadInode(inode)
    \/ \E inode \in MinixIndices : MinixGetDirEntries(inode)

SpecMinix == InitMinix /\ [][NextMinix]_vars

(***************************************************************************)
(* C26: init of the Minix driver fails with BadFilesystemFormat and leaves *)
(* the cached superblock absent when the magic read at byte offset 1024 is *)
(* not 0x4d5a; otherwise it caches the superblock and returns Ok.          *)
(***************************************************************************)
C26_InitMagic ==
    [][ mxOut'.op = "init" =>
          IF disk.magic # 19802
          THEN /\ ~mxOut'.out.ok
               /\ mxOut'.out.err = BadFilesystemFormat
               /\ minix'.superblock = {}
          ELSE /\ mxOut'.out.ok
               /\ minix'.superblock =
                     {[magic |-> disk.magic, imap_blocks |-> disk.imap_blocks,
                       zmap_blocks |-> disk.zmap_blocks]}
      ]_vars

C26_Witness ==
    /\ mxOut.op = "init"
    /\ disk.magic # 19802
    /\ mxOut.out.err = BadFilesystemFormat

\* the last call was a lookup of an inode of the driver's own mount
OwnLookup ==
    /\ mxOut.op \in {"read_inode", "get_dir_entries"}
    /\ minix.mount_id = {mxOut.arg.mount_id}

(***************************************************************************)
(* C27: init before use: a lookup of an inode of the driver's own mount,   *)
(* through get_dir_entries or read_inode, made before a call of init has   *)
(* succeeded (also after a failed init) returns FilesystemUninitialized    *)
(* and reads no block; after a successful init no such lookup returns      *)
(* FilesystemUninitialized.                                                *)
(***************************************************************************)
C27_InitBeforeUse ==
    OwnLookup =>
        /\ ~initOk =>
              /\ ~mxOut.out.ok
              /\ mxOut.out.err = <<"FilesystemUninitialized">>
              /\ mxOut.out.lookup = <<>>
              /\ mxOut.out.events = <<>>
        /\ initOk => mxOut.out.err # <<"FilesystemUninitialized">>

C27_Witness ==
    /\ OwnLookup
    /\ mxOut.op = "get_dir_entries"
    /\ disk.magic # 19802
    /\ minix.superblock = {}
    /\ mxOut.out.err = <<"FilesystemUninitialized">>

(***************************************************************************)
(* C28: for every inode number n >= 1 the inode lookup reads block         *)
(* (n-1) div 16 + 2 + imap_blocks + zmap_blocks and takes record           *)
(* (n-1) mod 16 of it: the record slot is below 16, the block is not below *)
(* 2 + imap_blocks + zmap_blocks, and distinct inode numbers map to        *)
(* distinct (block, slot) pairs.                                           *)
(***************************************************************************)
C28_InodeLookup ==
    (OwnLookup /\ minix.superblock # {} /\ mxOut.arg.inode >= 1) =>
        LET n == mxOut.arg.inode
            first == 2 + disk.imap_blocks + disk.zmap_blocks
            sb == CHOOSE x \in minix.superblock : TRUE
        IN /\ mxOut.out.lookup =
                 <<[block |-> (n - 1) \div 16 + first, slot |-> (n - 1) % 16]>>
           /\ mxOut.out.lookup[1].slot < 16
           /\ mxOut.out.lookup[1].block >= first
           /\ mxOut.out.inode = ImageInode(n)
           /\ \A a, b \in 1..MaxInodeNumber :
                 a # b =>
                    <<minix_block_index(sb, a), minix_slot(a)>>
                        # <<minix_block_index(sb, b), minix_slot(b)>>

C28_Witness ==
    /\ OwnLookup
    /\ minix.superblock # {}
    /\ mxOut.arg.inode = 33
    /\ mxOut.out.lookup =
          <<[block |-> 4 + disk.imap_blocks + disk.zmap_blocks, slot |-> 0]>>

\* The reference for the data read: the data blocks a raw zone list leads
\* to, in the order of the list, and the bytes of those blocks put end to
\* end.  Position i (from 0) of the inode's zones is direct for i <= 6 and
\* is resolved through i - 6 levels of indirect blocks above that.
RECURSIVE RefBlocksOf(_, _), RefBlocksIn(_, _, _), RefFileBlocks(_, _),
          ConcatBlocks(_)
RefBlocksOf(zone, level) ==
    IF level = 0 THEN <<zone>>
    ELSE RefBlocksIn(as_u32s(ImageBlock(zone)), 1, level)
RefBlocksIn(ptrs, k, level) ==
    IF k > Len(ptrs) THEN <<>>
    ELSE (IF ptrs[k] = 0 THEN <<>> ELSE RefBlocksOf(ptrs[k], level - 1))
            \o RefBlocksIn(ptrs, k + 1, level)
RefFileBlocks(zones, i) ==
    IF i > 9 THEN <<>>
    ELSE (IF zones[i + 1] = 0 THEN <<>>
          ELSE RefBlocksOf(zones[i + 1], IF i <= 6 THEN 0 ELSE i - 6))
            \o RefFileBlocks(zones, i + 1)
ConcatBlocks(bs) ==
    IF bs = <<>> THEN <<>> ELSE ImageBlock(Head(bs)) \o ConcatBlocks(Tail(bs))

Truncated(q, n) == SubSeq(q, 1, IF Len(q) < n THEN Len(q) ELSE n)
ZeroPadded(q, n) == [k \in 1..n |-> IF k <= Len(q) THEN q[k] ELSE 0]

\* the last call was a data read of an inode of the driver's own mount
DataRead ==
    /\ mxOut.op = "read_inode"
    /\ OwnLookup
    /\ mxOut.out.ok

IsDataBlockRead(e) == e.kind = "read" /\ e.level = 0
\* the data blocks the last call has read, in the order it read them
DataBlocksRead ==
    LET reads == SelectSeq(mxOut.out.events, IsDataBlockRead)
    IN [k \in 1..Len(reads) |-> reads[k].block]

\* the blocks are read in the order of the reference and block 0, the
\* zero pointer, is never read
ReadInZoneOrder ==
    LET ref == RefFileBlocks(mxOut.out.inode.zones, 0)
    IN /\ Len(DataBlocksRead) <= Len(ref)
       /\ DataBlocksRead = SubSeq(ref, 1, Len(DataBlocksRead))
       /\ \A k \in 1..Len(mxOut.out.events) :
             mxOut.out.events[k].kind = "read" => mxOut.out.events[k].block # 0

(***************************************************************************)
(* C29 as stated: the data read returns the concatenation, truncated to    *)
(* the inode's size, of the data blocks reached from the 10 zone pointers  *)
(* in pointer-array order, positions 0..6 direct and positions 7, 8, 9     *)
(* resolved through 1, 2 and 3 levels of indirect blocks scanned left to   *)
(* right, zero pointers at any level skipped without reading a block.      *)
(***************************************************************************)
C29_ReadConcatenation ==
    DataRead =>
        /\ mxOut.out.v =
              Truncated(ConcatBlocks(RefFileBlocks(mxOut.out.inode.zones, 0)),
                        mxOut.out.inode.size)
        /\ ReadInZoneOrder

(***************************************************************************)
(* C29 amended: the data read returns that concatenation truncated to the  *)
(* inode's size and, when the zones hold fewer bytes than the size,        *)
(* followed by zero bytes up to the size; the order of the blocks, the     *)
(* levels of the positions and the skipping of zero pointers are as        *)
(* stated.                                                                 *)
(***************************************************************************)
C29_ReadConcatenationPadded ==
    DataRead =>
        /\ mxOut.out.v =
              ZeroPadded(
                  Truncated(ConcatBlocks(RefFileBlocks(mxOut.out.inode.zones, 0)),
                            mxOut.out.inode.size),
                  mxOut.out.inode.size)
        /\ ReadInZoneOrder

\* inode 3 read: three direct zones around a hole, then the single
\* indirect zone
C29_Witness ==
    /\ DataRead
    /\ mxOut.arg.inode = 3
    /\ DataBlocksRead = <<11, 12, 13, 16>>
    /\ Len(mxOut.out.v) = 4 * BlockLen

\* the last call has read the data of an inode of the driver's own mount
ZonesRead ==
    /\ OwnLookup
    /\ mxOut.out.ok

\* the bytes written up to and with event k
WrittenUpTo(events, k) ==
    Cardinality({j \in 1..k : events[j].kind = "write"})

(***************************************************************************)
(* C30: during a data read the number of bytes written plus the remaining  *)
(* counter always equals the inode's size, every write lands at an output  *)
(* offset below the size, no data or indirect block is read once the       *)
(* remaining counter is zero, and the returned buffer has exactly `size`   *)
(* bytes whether the zones hold more data than the size or less.           *)
(***************************************************************************)
C30_ReadCounters ==
    ZonesRead =>
        LET events == mxOut.out.events
            size == mxOut.out.inode.size
        IN /\ \A k \in 1..Len(events) :
                 /\ events[k].index = WrittenUpTo(events, k)
                 /\ events[k].index + events[k].remaining = size
                 /\ events[k].kind = "write" => events[k].at < size
                 /\ events[k].kind = "read" => events[k].remaining > 0
           /\ mxOut.op = "read_inode" => Len(mxOut.out.v) = size

\* inode 6 read: the size ends one byte into the second data block, which
\* lies under the double indirect zone
C30_Witness ==
    /\ ZonesRead
    /\ mxOut.op = "read_inode"
    /\ mxOut.arg.inode = 6
    /\ DataBlocksRead = <<16, 20>>
    /\ Len(mxOut.out.v) = BlockLen + 1

\* the bytes of a directory as the reference reads them, and record i of
\* them
DirContent(inode) ==
    ZeroPadded(Truncated(ConcatBlocks(RefFileBlocks(inode.zones, 0)), inode.size),
               inode.size)
DirRecord(inode, i) ==
    SubSeq(DirContent(inode), (i - 1) * DirEntryLen + 1, i * DirEntryLen)
\* the name bytes of a record up to the first zero byte
RecordName(rec) ==
    LET name == SubSeq(rec, 2, Len(rec))
        zeros == {k \in 1..Len(name) : name[k] = 0}
        cut == IF zeros = {} THEN Len(name)
               ELSE (CHOOSE k \in zeros : \A j \in zeros : k <= j) - 1
    IN SubSeq(name, 1, cut)

\* the last call listed a directory of the driver's own mount after init
OwnListing ==
    /\ mxOut.op = "get_dir_entries"
    /\ OwnLookup
    /\ minix.superblock # {}
    /\ mxOut.out.lookup # <<>>

(***************************************************************************)
(* C31: get_dir_entries for an index of the driver's own mount fails with  *)
(* INodeIsNotADirectory when mode bit 0x4000 is clear; otherwise it        *)
(* returns exactly size div (record length) entries in on-disk record      *)
(* order, each carrying the record's inode number, the name cut at the     *)
(* first NUL byte (at most the name field's length), entry type Unknown    *)
(* and this mount's id.                                                    *)
(***************************************************************************)
C31_DirEntries ==
    OwnListing =>
        LET inode == mxOut.out.inode
            v == mxOut.out.v
        IN IF (inode.mode \div 16384) % 2 = 0
           THEN ~mxOut.out.ok /\ mxOut.out.err = <<"INodeIsNotADirectory">>
           ELSE /\ mxOut.out.ok
                /\ Len(v) = inode.size \div DirEntryLen
                /\ \A i \in 1..Len(v) :
                      /\ v[i].index.inode = DirRecord(inode, i)[1]
                      /\ v[i].index.mount_id = mxOut.arg.mount_id
                      /\ minix.mount_id = {v[i].index.mount_id}
                      /\ v[i].name = RecordName(DirRecord(inode, i))
                      /\ Len(v[i].name) <= DirEntryLen - 1
                      /\ v[i].entry_type = "Unknown"

C31_Witness ==
    /\ OwnListing
    /\ mxOut.arg.inode = 1
    /\ mxOut.out.ok
    /\ Len(mxOut.out.v) = 3
    /\ mxOut.out.v[1].name = <<97>>
    /\ mxOut.out.v[2].name = <<98, 99, 100>>
    /\ mxOut.out.v[3].index.inode = 0

\* the inode numbers the listing of the root directory returns
ListedInodeNumbers ==
    LET r == minix_get_dir_entries(
                 [mount_id |-> {0}, vfs |-> TRUE,
                  superblock |-> {[magic |-> MINIX3_MAGIC, imap_blocks |-> 1,
                                   zmap_blocks |-> 1]}],
                 disk, S, FsIndex(0, 1), TRUE)
    IN {r.v[i].index.inode : i \in 1..Len(r.v)}

(***************************************************************************)
(* C40: every inode number get_dir_entries can return in a DirectoryEntry, *)
(* 0 for an unused record among them, is a valid input to the inode        *)
(* lookup: looking it up never underflows in (inode_number - 1) and never  *)
(* aborts.                                                                 *)
(***************************************************************************)
C40_ListedNumbersLookUp ==
    (OwnLookup /\ minix.superblock # {}
        /\ mxOut.arg.inode \in ListedInodeNumbers) =>
        /\ mxOut.arg.inode - 1 >= 0
        /\ ~panicked
        /\ mxOut.out.err # <<"panic">>

(***************************************************************************)
(* C33: a call of mount_fs that returns an error (MissingRootMount, a      *)
(* failing get_root_index, FileNotFound for the parent path, or a failing  *)
(* graft) leaves the length of the mount table and the root designation    *)
(* as they were before the call.                                           *)
(***************************************************************************)
C33_FailedMountNoChange ==
    [][ (last'.op = "mount_fs" /\ ~last'.ok /\ ~panicked') =>
            /\ Len(mounts') = Len(mounts)
            /\ root' = root
      ]_vars

\* directory `dir` of the mount table `ms` holds an entry `name` in the
\* backends `f`
HoldsEntry(ms, f, dir, name) ==
    /\ dir.mount_id >= 0 /\ dir.mount_id < Len(ms)
    /\ dir.inode \in 1..Len(f[ms[dir.mount_id + 1]].inodes)
    /\ FirstNamed(f[ms[dir.mount_id + 1]].inodes[dir.inode].entries, name, 1) # 0

(***************************************************************************)
(* C34: if the VFS's remove_dir_entry(dir, name) returns an error, the     *)
(* backend directory still contains the entry `name` it contained before   *)
(* the call: the removal and the re-resolution and invalidation of the     *)
(* cache succeed or fail as one unit.                                      *)
(***************************************************************************)
C34_FailedRemoveKeepsEntry ==
    [][ (/\ last'.op = "remove_dir_entry"
         /\ ~last'.ok
         /\ ~panicked'
         /\ HoldsEntry(mounts, fs, last'.args[1], last'.args[2])) =>
            HoldsEntry(mounts', fs', last'.args[1], last'.args[2])
      ]_vars

(***************************************************************************)
(* C35: a failed unlink_inode leaves the filesystem unchanged: when        *)
(* remove_dir_entry or remove_inode fails after the link count was         *)
(* decremented to zero, the link count is restored, so the backends hold   *)
(* after the failed call what they held before it.                         *)
(***************************************************************************)
C35_FailedUnlinkNoChange ==
    [][ (last'.op = "unlink_inode" /\ ~last'.ok /\ ~panicked') => fs' = fs ]_vars

(***************************************************************************)
(* C36: path_to_inode is read-only: on a hit and on a miss, successful or  *)
(* failing, it leaves the forward cache, the reverse cache, the mount      *)
(* table and the root designation unchanged; a walk never populates the    *)
(* cache.                                                                  *)
(***************************************************************************)
C36_PathToInodeReadOnly ==
    [][ last'.op = "path_to_inode" =>
            /\ index' = index
            /\ indexed' = indexed
            /\ mounts' = mounts
            /\ root' = root
      ]_vars

\* a walk has resolved a path the forward cache does not hold
C36_Witness ==
    /\ last.op = "path_to_inode"
    /\ last.ok
    /\ last.args[1] \notin DOMAIN index
    /\ last.listed # <<>>

(***************************************************************************)
(* Two execution contexts in mount_fs at once.  get_vfs_reference hands    *)
(* every context a &'static mut to the one FilesystemInterface and nothing *)
(* guards it, so the statements of the two calls interleave: the read of   *)
(* mounts.len() with set_mount_id and get_root_index (which touch the      *)
(* context's own backend only), the read of the length inside Vec::push,   *)
(* the write of the slot and of the new length, and the rest of the call.  *)
(* Context c mounts backend c.                                             *)
(***************************************************************************)
RacePaths == {PathRoot, <<SEP, "m">>}

InitRace ==
    /\ mounts = <<>>
    /\ root = {}
    /\ index = EmptyMap
    /\ indexed = EmptyMap
    /\ fs = [b \in Backends |-> [mount_id |-> {}, inodes |-> Image(b)]]
    /\ panicked = FALSE
    /\ last = [op |-> "new", args |-> <<>>, ok |-> TRUE, err |-> <<"">>, v |-> <<>>,
               calls |-> <<>>, listed |-> <<>>]
    /\ unlinkOnly = TRUE
    /\ steps = 0
    /\ SingletonRegistered
    /\ PathIdle
    /\ MinixIdle
    /\ RaceIdle
    /\ FdIdle

raceQuiet == <<singletonVars, pathVars, minixVars, fdVars, last, unlinkOnly, steps>>

\* let id = self.mounts.len(); fs.set_mount_id(id, ..); fs.get_root_index()?
MountEnter(c, path) ==
    /\ ~panicked
    /\ mountPc[c] = "idle"
    /\ LET id == Len(mounts)
           r == fs_get_root_index(fs_set_mount_id(S, c, id), c)
       IN /\ fs' = r.s.fs
          /\ mountLocal' = [mountLocal EXCEPT ![c] =
                [path |-> path, id |-> id,
                 root |-> IF r.ok THEN r.v ELSE FsIndex(0, 0), len |-> 0,
                 ok |-> r.ok, err |-> r.err]]
          /\ mountPc' = [mountPc EXCEPT ![c] = IF r.ok THEN "push" ELSE "done"]
    /\ UNCHANGED <<mounts, root, index, indexed, panicked, raceQuiet>>

\* self.mounts.push(Some(fs)): the read of the vector's length
MountPushLoad(c) ==
    /\ ~panicked
    /\ mountPc[c] = "push"
    /\ mountLocal' = [mountLocal EXCEPT ![c].len = Len(mounts)]
    /\ mountPc' = [mountPc EXCEPT ![c] = "store"]
    /\ UNCHANGED <<mounts, root, index, indexed, fs, panicked, raceQuiet>>

\* self.mounts.push(Some(fs)): the write of the slot and of the length
MountPushStore(c) ==
    /\ ~panicked
    /\ mountPc[c] = "store"
    /\ mounts' = SubSeq(mounts, 1, mountLocal[c].len) \o <<c>>
    /\ mountPc' = [mountPc EXCEPT ![c] = "finish"]
    /\ UNCHANGED <<root, index, indexed, fs, panicked, mountLocal, raceQuiet>>

\* mount_fs from the test of the path to the return
MountFinish(c) ==
    /\ ~panicked
    /\ mountPc[c] = "finish"
    /\ LET l == mountLocal[c]
           sp == split_last(l.path)
           ri == vfs_path_to_inode(S, sp.parent)
           r == IF l.path = <<SEP>> THEN Ok([S EXCEPT !.root = {l.id}], <<>>)
                ELSE IF root = {} THEN Err(S, MissingRootMount)
                ELSE IF ~ri.ok THEN ri
                ELSE vfs_mount_fs_at(ri.s, ri.v, l.root, sp.leaf)
       IN /\ mounts' = r.s.mounts
          /\ root' = r.s.root
          /\ index' = r.s.index
          /\ indexed' = r.s.indexed
          /\ fs' = r.s.fs
          /\ panicked' = r.s.panicked
          /\ mountLocal' = [mountLocal EXCEPT ![c].ok = r.ok, ![c].err = r.err]
    /\ mountPc' = [mountPc EXCEPT ![c] = "done"]
    /\ UNCHANGED raceQuiet

NextRace ==
    \/ \E c \in Backends, path \in RacePaths : MountEnter(c, path)
    \/ \E c \in Backends : MountPushLoad(c)
    \/ \E c \in Backends : MountPushStore(c)
    \/ \E c \in Backends : MountFinish(c)

SpecRace == InitRace /\ [][NextRace]_vars

(***************************************************************************)
(* C37: when two execution contexts run mount_fs on the shared VFS         *)
(* instance concurrently, in every interleaving the two backends receive   *)
(* distinct mount ids and each backend ends up in the table slot equal to  *)
(* its own id.                                                             *)
(***************************************************************************)
C37_ConcurrentMountIds ==
    (\A c \in Backends : mountPc[c] = "done") =>
        /\ \A c, e \in Backends : c # e => fs[c].mount_id # fs[e].mount_id
        /\ \A c \in Backends :
              /\ fs[c].mount_id = {mountLocal[c].id}
              /\ mountLocal[c].id < Len(mounts)
              /\ mounts[mountLocal[c].id + 1] = c

(***************************************************************************)
(* InodeFileDescriptor (src/qor-os/src/process/descriptor.rs): a buffered  *)
(* descriptor on one inode of the VFS.                                     *)
(***************************************************************************)
O_RDONLY == 1
O_WRONLY == 2
O_APPEND == 4
O_TRUNC == 8

\* mode & flag > 0, for a flag of one bit
HasFlag(mode, flag) == (mode \div flag) % 2 = 1

UsizeMax == UsizeModulus - 1

\* an arithmetic overflow of usize: a panic in a build with overflow checks,
\* the wrapped value in a build without
Overflows(n) == n < 0 \/ n >= UsizeModulus

\* InodeFileDescriptor::new
fd_new(s, inode, mode) ==
    LET temp == [NoDescriptor EXCEPT
                    !.inode = inode,
                    !.mode = mode,
                    !.is_write = HasFlag(mode, O_WRONLY) \/ HasFlag(mode, O_APPEND),
                    !.is_read = HasFlag(mode, O_RDONLY)]
        appending == HasFlag(mode, O_APPEND) /\ ~HasFlag(mode, O_TRUNC)
        r == vfs_read_inode(s, inode)
    IN IF temp.is_read \/ appending
       THEN IF r.ok
            THEN [s |-> r.s, ok |-> TRUE,
                  f |-> [temp EXCEPT !.data = r.v,
                                     !.index = IF appending THEN Len(r.v) ELSE 0]]
            ELSE [s |-> r.s, ok |-> FALSE, f |-> NoDescriptor]
       ELSE [s |-> s, ok |-> TRUE, f |-> temp]

\* close that writes the buffer back whatever the descriptor was opened for
fd_close_always(s, f) ==
    LET r == vfs_write_inode(s, f.inode, f.data)
    IN [s |-> IF r.ok THEN r.s ELSE Panic(r.s).s, wrote |-> <<f.data>>]

\* InodeFileDescriptor::close; wrote: the buffers handed to write_inode
fd_close(s, f) ==
    IF f.is_write
    THEN LET r == vfs_write_inode(s, f.inode, f.data)
         IN [s |-> IF r.ok THEN r.s ELSE Panic(r.s).s, wrote |-> <<f.data>>]
    ELSE [s |-> s, wrote |-> <<>>]

\* Drop for InodeFileDescriptor; ref: what get_vfs_reference returns
fd_drop(s, f, ref) ==
    IF ref # 0 THEN fd_close(s, f) ELSE [s |-> s, wrote |-> <<>>]

\* the loop of InodeFileDescriptor::write from byte i of the buffer
RECURSIVE fd_write_from(_, _, _, _)
fd_write_from(f, buffer, i, checks) ==
    IF i > Len(buffer)
    THEN [f |-> f, panic |-> FALSE]
    ELSE LET stored == IF f.index < Len(f.data)
                       THEN [f EXCEPT !.data[f.index + 1] = buffer[i]]
                       ELSE [f EXCEPT !.data = Append(@, buffer[i])]
         IN IF Overflows(stored.index + 1) /\ checks
            THEN [f |-> stored, panic |-> TRUE]
            ELSE fd_write_from([stored EXCEPT !.index = (@ + 1) % UsizeModulus],
                               buffer, i + 1, checks)

\* InodeFileDescriptor::write of the count = Len(buffer) bytes of buffer
fd_write(f, buffer, checks) ==
    IF ~f.is_write
    THEN [f |-> f, ret |-> UsizeMax, panic |-> FALSE]
    ELSE LET r == fd_write_from(f, buffer, 1, checks)
         IN [f |-> r.f, ret |-> Len(buffer), panic |-> r.panic]

\* the loop of InodeFileDescriptor::read; copied: the bytes put in the buffer
RECURSIVE fd_read_loop(_, _, _)
fd_read_loop(f, count, copied) ==
    IF f.index < Len(f.data)
    THEN LET written == Append(copied, f.data[f.index + 1])
             g == [f EXCEPT !.index = @ + 1]
         IN IF Len(written) = count
            THEN [f |-> g, copied |-> written]
            ELSE fd_read_loop(g, count, written)
    ELSE [f |-> f, copied |-> copied]

\* InodeFileDescriptor::read
fd_read(f, count) ==
    IF ~f.is_read
    THEN [f |-> f, ret |-> UsizeMax, copied |-> <<>>]
    ELSE LET r == fd_read_loop(f, count, <<>>)
         IN [f |-> r.f, ret |-> Len(r.copied), copied |-> r.copied]

Zeros(n) == [k \in 1..n |-> 0]

\* InodeFileDescriptor::seek
fd_seek(f, offset, mode, checks) ==
    LET raw == CASE mode = "SeekSet" -> offset
                 [] mode = "SeekCurrent" -> f.index + offset
                 [] mode = "SeekEnd" -> Len(f.data) - 1 + offset
        under == mode = "SeekEnd" /\ Len(f.data) = 0
        g == [f EXCEPT !.index = raw % UsizeModulus,
                       !.data = IF mode = "SeekEnd" THEN @ \o Zeros(offset) ELSE @]
    IN IF (under \/ Overflows(raw)) /\ checks
       THEN [f |-> f, ret |-> 0, panic |-> TRUE]
       ELSE [f |-> g, ret |-> g.index, panic |-> FALSE]

(***************************************************************************)
(* The descriptor machine: backend 1 is mounted at "/", and descriptors    *)
(* are opened on its file /f (inode 3) and on an inode of a mount that is  *)
(* not there; each is read, written, sought, closed and dropped.           *)
(***************************************************************************)
MaxFdOps == 5
FdInodes == {FsIndex(0, 3), FsIndex(1, 3)}
FdModes == {O_RDONLY, O_WRONLY, O_RDONLY + O_WRONLY, O_APPEND, O_APPEND + O_TRUNC}
FdCounts == 0..2
FdBuffers == {<<>>, <<7>>}
FdOffsets == 0..1
SeekModes == {"SeekSet", "SeekCurrent", "SeekEnd"}

InitFd ==
    /\ mounts = <<1>>
    /\ root = {0}
    /\ index = EmptyMap
    /\ indexed = EmptyMap
    /\ fs = [b \in Backends |-> [mount_id |-> IF b = 1 THEN {0} ELSE {},
                                 inodes |-> Image(b)]]
    /\ panicked = FALSE
    /\ last = [op |-> "mount_fs", args |-> <<PathRoot, 1>>, ok |-> TRUE, err |-> <<"">>,
               v |-> <<>>, calls |-> <<>>, listed |-> <<>>]
    /\ unlinkOnly = TRUE
    /\ steps = 0
    /\ SingletonRegistered
    /\ PathIdle
    /\ MinixIdle
    /\ RaceIdle
    /\ FdIdle

fdQuiet == <<singletonVars, pathVars, minixVars, raceVars, mounts, root, index, indexed,
             last, unlinkOnly, steps>>

FdOps == fds[1].ops + fds[2].ops
FdReady == ~panicked /\ FdOps < MaxFdOps
Open(d) == FdReady /\ fds[d].st = "open"

FdCall(op, d, arg, ret, copied, wrote) ==
    [op |-> op, d |-> d, arg |-> arg, ret |-> ret, copied |-> copied, wrote |-> wrote]

FdNew(d, inode, mode) ==
    /\ FdReady
    /\ fds[d].st = "none"
    /\ LET r == fd_new(S, inode, mode)
       IN /\ fds' = [fds EXCEPT ![d] =
                        [r.f EXCEPT !.st = IF r.ok THEN "open" ELSE "none",
                                    !.ops = fds[d].ops + 1]]
          /\ fs' = r.s.fs
          /\ panicked' = r.s.panicked
          /\ fdOut' = FdCall("new", d, <<inode, mode>>, IF r.ok THEN 0 ELSE 1, <<>>, <<>>)
    /\ UNCHANGED <<flushes, fdQuiet>>

FdRead(d, count) ==
    /\ Open(d)
    /\ LET r == fd_read(fds[d], count)
       IN /\ fds' = [fds EXCEPT ![d] = [r.f EXCEPT !.ops = @ + 1]]
          /\ fdOut' = FdCall("read", d, <<count>>, r.ret, r.copied, <<>>)
    /\ UNCHANGED <<fs, panicked, flushes, fdQuiet>>

FdWrite(d, buffer) ==
    /\ Open(d)
    /\ \E checks \in BOOLEAN :
          LET r == fd_write(fds[d], buffer, checks)
          IN /\ fds' = [fds EXCEPT ![d] = [r.f EXCEPT !.ops = @ + 1]]
             /\ panicked' = r.panic
             /\ fdOut' = FdCall("write", d, <<buffer>>, r.ret, <<>>, <<>>)
    /\ UNCHANGED <<fs, flushes, fdQuiet>>

FdSeek(d, offset, mode) ==
    /\ Open(d)
    /\ \E checks \in BOOLEAN :
          LET r == fd_seek(fds[d], offset, mode, checks)
          IN /\ fds' = [fds EXCEPT ![d] = [r.f EXCEPT !.ops = @ + 1]]
             /\ panicked' = r.panic
             /\ fdOut' = FdCall("seek", d, <<offset, mode>>, r.ret, <<>>, <<>>)
    /\ UNCHANGED <<fs, flushes, fdQuiet>>

\* FileDescriptor::close, called once before the descriptor is removed
FdClose(d) ==
    /\ Open(d)
    /\ LET r == fd_close(S, fds[d])
       IN /\ fds' = [fds EXCEPT ![d].st = "closed", ![d].ops = @ + 1]
          /\ fs' = r.s.fs
          /\ panicked' = r.s.panicked
          /\ flushes' = [flushes EXCEPT ![d] = @ \o r.wrote]
          /\ fdOut' = FdCall("close", d, <<>>, 0, <<>>, r.wrote)
    /\ UNCHANGED fdQuiet

\* the descriptor goes out of scope, closed before or not
FdDrop(d) ==
    /\ FdReady
    /\ fds[d].st \in {"open", "closed"}
    /\ LET r == fd_drop(S, fds[d], vfsInterface)
       IN /\ fds' = [fds EXCEPT ![d].st = "dropped", ![d].ops = @ + 1]
          /\ fs' = r.s.fs
          /\ panicked' = r.s.panicked
          /\ flushes' = [flushes EXCEPT ![d] = @ \o r.wrote]
          /\ fdOut' = FdCall("drop", d, <<>>, 0, <<>>, r.wrote)
    /\ UNCHANGED fdQuiet

NextFd ==
    \/ \E d \in Descriptors, inode \in FdInodes, mode \in FdModes : FdNew(d, inode, mode)
    \/ \E d \in Descriptors, count \in FdCounts : FdRead(d, count)
    \/ \E d \in Descriptors, buffer \in FdBuffers : FdWrite(d, buffer)
    \/ \E d \in Descriptors, offset \in FdOffsets, mode \in SeekModes :
          FdSeek(d, offset, mode)
    \/ \E d \in Descriptors : FdClose(d)
    \/ \E d \in Descriptors : FdDrop(d)

SpecFd == InitFd /\ [][NextFd]_vars

\* the descriptor was opened with O_WRONLY or O_APPEND
WriteMode(mode) == HasFlag(mode, O_WRONLY) \/ HasFlag(mode, O_APPEND)
Closing(d) == fds[d].st = "open" /\ fds'[d].st = "closed"
Dropping(d) == fds[d].st \in {"open", "closed"} /\ fds'[d].st = "dropped"

(***************************************************************************)
(* C32: a write-mode InodeFileDescriptor (opened with O_WRONLY or          *)
(* O_APPEND) passes its whole buffered data to write_inode of its inode    *)
(* when it is closed and when it is dropped while the VFS singleton        *)
(* exists; a descriptor opened without a write flag never calls            *)
(* write_inode, whatever sequence of read, write, seek, close and drop is  *)
(* applied.                                                                *)
(***************************************************************************)
C32_FlushOnCloseAndDrop ==
    [][\A d \in Descriptors :
          /\ (WriteMode(fds[d].mode) /\ (Closing(d) \/ (Dropping(d) /\ vfsInterface # 0)))
                => /\ flushes'[d] = Append(flushes[d], fds[d].data)
                   /\ fds[d].inode = FsIndex(0, 3) => fs'[1].inodes[3].data = fds[d].data
          /\ ~WriteMode(fds'[d].mode) => flushes'[d] = <<>>]_vars

\* descriptor 1, opened for appending, was closed and dropped and flushed its
\* bytes both times; descriptor 2, opened read-only, was closed without a flush
C32_Witness ==
    /\ fds[1].st = "dropped"
    /\ WriteMode(fds[1].mode)
    /\ Len(flushes[1]) = 2
    /\ flushes[1][2] = FileBytes
    /\ fds[2].st = "closed"
    /\ fds[2].mode = O_RDONLY
    /\ flushes[2] = <<>>

Min(a, b) == IF a < b THEN a ELSE b
Reading(d) == fdOut'.op = "read" /\ fdOut'.d = d /\ fds'[d].ops = fds[d].ops + 1

(***************************************************************************)
(* C38: InodeFileDescriptor::read on a readable descriptor copies          *)
(* min(count, data length - position) bytes, never more than count         *)
(* (including count == 0, which copies nothing), advances the position by  *)
(* the number returned, and returns usize::MAX without copying when the    *)
(* descriptor is not readable.                                             *)
(***************************************************************************)
C38_ReadCount ==
    [][\A d \in Descriptors :
          Reading(d) =>
             LET f == fds[d]
                 count == fdOut'.arg[1]
                 left == IF f.index < Len(f.data) THEN Len(f.data) - f.index ELSE 0
             IN IF f.is_read
                THEN /\ fdOut'.ret = Min(count, left)
                     /\ Len(fdOut'.copied) <= count
                     /\ fdOut'.copied = SubSeq(f.data, f.index + 1, f.index + fdOut'.ret)
                     /\ fds'[d].index = f.index + fdOut'.ret
                ELSE /\ fdOut'.ret = UsizeMax
                     /\ fdOut'.copied = <<>>
                     /\ fds'[d].index = f.index]_vars

(***************************************************************************)
(* C39: a write-mode InodeFileDescriptor writes its buffer back at most    *)
(* once over its lifetime: after close has flushed, the later drop does    *)
(* not call write_inode again, so data written to the same inode by        *)
(* another descriptor between close and drop is never overwritten.         *)
(***************************************************************************)
C39_FlushAtMostOnce ==
    [][\A d \in Descriptors :
          (fds[d].st = "closed" /\ Dropping(d))
             => /\ flushes'[d] = flushes[d]
                /\ fs' = fs]_vars

====
